---------------------------- MODULE Spec2Model ----------------------------
(***************************************************************************)
(* Carbon Deal Intelligence Dashboard (irfon92/carbon-dashboard).          *)
(*                                                                         *)
(* The model covers the two Flask applications of src/dashboard: the open  *)
(* app (app.py) and the secure app (secure_app.py).  A snapshot is the     *)
(* pair of lists the loaders return (the latest commitments_*.json and     *)
(* funding_*.json); the handlers filter it, derive alerts from it and      *)
(* summarise it.  Beside them run the collection loop of run_dashboard.py, *)
(* which writes the files, and the scorers and the amount parsers of       *)
(* src/scrapers and create_real_data.py, modelled as functions that are    *)
(* called on enumerated arguments.                                         *)
(*                                                                         *)
(* Conventions                                                             *)
(*   - a Python str is a sequence of character codes (ASCII), so that      *)
(*     parsing, the regular expressions and the lexicographic order of     *)
(*     strings are computed, not assumed;                                  *)
(*   - a float score or threshold is an integer number of hundredths       *)
(*     (0.6 is 60, 1.0 is 100);                                            *)
(*   - a JSON value is a tagged record PyVal = [t, s, n]; a JSON object is *)
(*     a TLA+ record whose DOMAIN is the set of keys it has;               *)
(*   - a datetime is [ord, sec]: the proleptic Gregorian ordinal of its    *)
(*     date and the seconds since midnight.                                *)
(***************************************************************************)
EXTENDS Integers, Sequences, FiniteSets, TLC

VARIABLES
    commitments,   \* list returned by load_latest_commitments (file content)
    funding,       \* list returned by load_latest_funding (file content)
    expected_key,  \* os.environ CARBON_DASHBOARD_API_KEY (a str, <<>> = unset)
    pc,            \* "idle" | "done": position of the request being served
    req,           \* the request being served: endpoint, app, args, headers, now
    alerts,        \* api_alerts' local list `alerts` after the sort
    resp,          \* the response of the request
    disk,          \* the data directory: the newest commitments and funding file
    writer,        \* position of the data collection loop of run_dashboard.py
    called,        \* the scraper or parser function being called, with its arguments
    outcome        \* what the called function returned

vars == <<commitments, funding, expected_key, pc, req, alerts, resp,
          disk, writer, called, outcome>>

-----------------------------------------------------------------------------
(* Bounds of the model *)

\* longest snapshot list enumerated record by record
MaxSnap == 2

\* how many records beyond the response cap the bulk snapshots hold
BulkOver == 1

-----------------------------------------------------------------------------
(* Program constants *)

\* app.py:150  max(1, min(180, int(...)))  and the default 180
OpenMaxDays == 180
\* secure_app.py:62  max(1, min(365, days_back))
SecureMaxDays == 365
\* secure_app.py:61  int(request.args.get('days', 30))
SecureDefaultDays == 30
\* secure_app.py:284  filtered[:100]
ResponseCap == 100
\* secure_app.py:121  data[:1000]
LoadCap == 1000
\* app.py:290  alerts[:20]
AlertCap == 20
\* app.py:242  timedelta(days=7)
AlertDays == 7
\* app.py:246  c['relevance_score'] > 0.6   (hundredths)
HighScore == 60

-----------------------------------------------------------------------------
(* Python values *)

Str(s) == [t |-> "str", s |-> s, n |-> 0]
Num(n) == [t |-> "num", s |-> <<>>, n |-> n]
None == [t |-> "none", s |-> <<>>, n |-> 0]

\* isinstance(v, (int, float))
IsNumber(v) == v.t = "num"

\* d.get(k, default): the value under k, or the default
Get(d, k, default) == IF k \in DOMAIN d THEN d[k] ELSE default

\* a float: a number of hundredths, or NaN (every comparison with it is false)
F(v) == [k |-> "num", v |-> v]
NaN == [k |-> "nan", v |-> 0]
FLt(a, b) == a.k = "num" /\ b.k = "num" /\ a.v < b.v

\* Python's min(a, b): b if b < a else a;  max(a, b): b if b > a else a
PyMin(a, b) == IF FLt(b, a) THEN b ELSE a
PyMax(a, b) == IF FLt(a, b) THEN b ELSE a

\* lexicographic order of two str (code point by code point)
RECURSIVE StrLt(_, _)
StrLt(a, b) ==
    IF b = <<>> THEN FALSE
    ELSE IF a = <<>> THEN TRUE
    ELSE IF a[1] # b[1] THEN a[1] < b[1]
    ELSE StrLt(Tail(a), Tail(b))

\* s[1:n + 1]: a slice that starts one element late
slice_from_second(s, n) == SubSeq(s, 2, IF Len(s) < n + 1 THEN Len(s) ELSE n + 1)

Take(s, n) == SubSeq(s, 1, IF Len(s) < n THEN Len(s) ELSE n)

-----------------------------------------------------------------------------
(* datetime *)

IsDigit(c) == c \in 48..57
Digit(c) == c - 48

IsLeap(y) == y % 4 = 0 /\ (y % 100 # 0 \/ y % 400 = 0)

DaysInMonth(y, m) ==
    IF m = 2 THEN (IF IsLeap(y) THEN 29 ELSE 28)
    ELSE IF m \in {4, 6, 9, 11} THEN 30 ELSE 31

DaysBeforeYear(y) ==
    LET p == y - 1 IN p * 365 + (p \div 4) - (p \div 100) + (p \div 400)

RECURSIVE DaysBeforeMonth(_, _)
DaysBeforeMonth(y, m) ==
    IF m = 1 THEN 0 ELSE DaysBeforeMonth(y, m - 1) + DaysInMonth(y, m - 1)

\* date(y, m, d).toordinal()
ymd2ord(y, m, d) == DaysBeforeYear(y) + DaysBeforeMonth(y, m) + d

\* the %m directive: 1[0-2] | 0[1-9] | [1-9], at position 6
MonthToken(s) ==
    IF Len(s) >= 7 /\ s[6] = 49 /\ s[7] \in 48..50
    THEN [len |-> 2, val |-> 10 + Digit(s[7])]
    ELSE IF Len(s) >= 7 /\ s[6] = 48 /\ s[7] \in 49..57
    THEN [len |-> 2, val |-> Digit(s[7])]
    ELSE IF Len(s) >= 6 /\ s[6] \in 49..57
    THEN [len |-> 1, val |-> Digit(s[6])]
    ELSE [len |-> 0, val |-> 0]

\* the %d directive: 3[0-1] | [1-2]\d | 0[1-9] | [1-9] | ' '[1-9], at position p
DayToken(s, p) ==
    LET two == Len(s) >= p + 1 IN
    IF two /\ s[p] = 51 /\ s[p + 1] \in 48..49
    THEN [len |-> 2, val |-> 30 + Digit(s[p + 1])]
    ELSE IF two /\ s[p] \in 49..50 /\ IsDigit(s[p + 1])
    THEN [len |-> 2, val |-> 10 * Digit(s[p]) + Digit(s[p + 1])]
    ELSE IF two /\ s[p] = 48 /\ s[p + 1] \in 49..57
    THEN [len |-> 2, val |-> Digit(s[p + 1])]
    ELSE IF Len(s) >= p /\ s[p] \in 49..57
    THEN [len |-> 1, val |-> Digit(s[p])]
    ELSE IF two /\ s[p] = 32 /\ s[p + 1] \in 49..57
    THEN [len |-> 2, val |-> Digit(s[p + 1])]
    ELSE [len |-> 0, val |-> 0]

NoDate == [ok |-> FALSE, ord |-> 0]

\* datetime.strptime(s, '%Y-%m-%d') of a str: the date's ordinal, or a ValueError
strptime_str(s) ==
    IF ~(Len(s) >= 5 /\ (\A i \in 1..4 : IsDigit(s[i])) /\ s[5] = 45) THEN NoDate
    ELSE
    LET y == 1000 * Digit(s[1]) + 100 * Digit(s[2]) + 10 * Digit(s[3]) + Digit(s[4])
        mt == MonthToken(s)
        dp == 6 + mt.len + 1
        dt == DayToken(s, dp)
    IN  IF mt.len = 0 \/ Len(s) < 6 + mt.len \/ s[6 + mt.len] # 45 THEN NoDate
        ELSE IF dt.len = 0 THEN NoDate
        ELSE IF dp + dt.len # Len(s) + 1 THEN NoDate   \* unconverted data remains
        ELSE IF y < 1 \/ dt.val > DaysInMonth(y, mt.val) THEN NoDate
        ELSE [ok |-> TRUE, ord |-> ymd2ord(y, mt.val, dt.val)]

\* datetime.strptime(rec['announcement_date'], '%Y-%m-%d'): KeyError when the key
\* is missing, TypeError when the value is no str, ValueError when it does not parse
strptime(rec) ==
    IF "announcement_date" \notin DOMAIN rec THEN NoDate
    ELSE IF rec.announcement_date.t # "str" THEN NoDate
    ELSE strptime_str(rec.announcement_date.s)

\* two decimal digits of n, zero padded
Pad2(n) == <<48 + (n \div 10), 48 + (n % 10)>>

\* date(y, m, d).strftime('%Y-%m-%d')
strftime(y, m, d) ==
    <<48 + (y \div 1000), 48 + ((y \div 100) % 10), 48 + ((y \div 10) % 10), 48 + (y % 10)>>
    \o <<45>> \o Pad2(m) \o <<45>> \o Pad2(d)

\* now - timedelta(days=k)
MinusDays(dt, k) == [ord |-> dt.ord - k, sec |-> dt.sec]

\* datetime(date) >= cutoff, the date at midnight
MidnightGe(ord, cutoff) == ord > cutoff.ord \/ (ord = cutoff.ord /\ cutoff.sec = 0)

-----------------------------------------------------------------------------
(* Query parameters *)

\* request.args: a numeric argument is absent, unparseable text ("bad"), a number
\* ("num", its value) or the text nan; a text argument is absent or a str
Absent == [k |-> "absent", v |-> 0]
BadArg == [k |-> "bad", v |-> 0]
NumArg(v) == [k |-> "num", v |-> v]
NanArg == [k |-> "nan", v |-> 0]
NoText == [k |-> "absent", s |-> <<>>]
Text(s) == [k |-> "str", s |-> s]

\* float(request.args.get(name, default)): ok = FALSE is the ValueError
float_arg(a, default) ==
    IF a.k = "absent" THEN [ok |-> TRUE, val |-> F(default)]
    ELSE IF a.k = "num" THEN [ok |-> TRUE, val |-> F(a.v)]
    ELSE IF a.k = "nan" THEN [ok |-> TRUE, val |-> NaN]
    ELSE [ok |-> FALSE, val |-> F(0)]

\* int(request.args.get(name, default)): int('nan') is a ValueError too
int_arg(a, default) ==
    IF a.k = "absent" THEN [ok |-> TRUE, val |-> default]
    ELSE IF a.k = "num" THEN [ok |-> TRUE, val |-> a.v]
    ELSE [ok |-> FALSE, val |-> 0]

\* request.args.get(name, '')
text_arg(a) == IF a.k = "absent" THEN <<>> ELSE a.s

\* min(1, x) alone: the clamp without its lower bound, which C7 must tell from
\* the clamp of the code
clamp_above(x) == PyMin(F(100), x).v

\* max(0, min(1, x)) on a float, in hundredths
clamp_unit(x) == PyMax(F(0), PyMin(F(100), x)).v

\* max(1, min(limit, days))
clamp_days(days, limit) ==
    LET m == IF limit < days THEN limit ELSE days IN IF m > 1 THEN m ELSE 1

\* [a-zA-Z0-9_-]
NameChar(c) == c \in (97..122) \cup (65..90) \cup (48..57) \cup {95, 45}

\* re.match(r'^[a-zA-Z0-9_-]+$', s): $ also matches before a final newline
name_match(s) ==
    LET body == IF Len(s) >= 1 /\ s[Len(s)] = 10 THEN SubSeq(s, 1, Len(s) - 1) ELSE s
    IN  Len(body) >= 1 /\ \A i \in 1..Len(body) : NameChar(body[i])

Params(mr, db, ct, se, mt, mp) ==
    [min_relevance |-> mr, days_back |-> db, commitment_type |-> ct,
     sector |-> se, min_threat |-> mt, min_partnership |-> mp]

NoParams == Params(0, 0, <<>>, <<>>, 0, 0)

\* secure_app.validate_query_params: ok = FALSE is abort(400)
validate_query_params(args) ==
    LET mr == float_arg(args.min_relevance, 0)
        db == int_arg(args.days, SecureDefaultDays)
        ct == text_arg(args.type)
        se == text_arg(args.sector)
        mt == float_arg(args.min_threat, 0)
        mp == float_arg(args.min_partnership, 0)
    IN  IF mr.ok /\ db.ok /\ mt.ok /\ mp.ok
        THEN [ok |-> TRUE,
              params |-> Params(clamp_unit(mr.val),
                                clamp_days(db.val, SecureMaxDays),
                                IF ct # <<>> /\ ~name_match(ct) THEN <<>> ELSE ct,
                                IF se # <<>> /\ ~name_match(se) THEN <<>> ELSE se,
                                clamp_unit(mt.val),
                                clamp_unit(mp.val))]
        ELSE [ok |-> FALSE, params |-> NoParams]

\* the try/except around the two numbers only, the type read after it
commitments_params_keeping_type(args) ==
    LET mr == float_arg(args.min_relevance, 0)
        db == int_arg(args.days, OpenMaxDays)
    IN  IF mr.ok /\ db.ok
        THEN Params(clamp_unit(mr.val), clamp_days(db.val, OpenMaxDays),
                    text_arg(args.type), <<>>, 0, 0)
        ELSE Params(0, OpenMaxDays, text_arg(args.type), <<>>, 0, 0)

\* app.api_commitments, the try/except around the three parameters
app_commitments_params(args) ==
    LET mr == float_arg(args.min_relevance, 0)
        db == int_arg(args.days, OpenMaxDays)
    IN  IF mr.ok /\ db.ok
        THEN Params(clamp_unit(mr.val), clamp_days(db.val, OpenMaxDays),
                    text_arg(args.type), <<>>, 0, 0)
        ELSE Params(0, OpenMaxDays, <<>>, <<>>, 0, 0)

\* app.api_funding, the try/except around the five parameters
app_funding_params(args) ==
    LET mr == float_arg(args.min_relevance, 0)
        db == int_arg(args.days, OpenMaxDays)
        mt == float_arg(args.min_threat, 0)
        mp == float_arg(args.min_partnership, 0)
    IN  IF mr.ok /\ db.ok /\ mt.ok /\ mp.ok
        THEN Params(clamp_unit(mr.val), clamp_days(db.val, OpenMaxDays),
                    <<>>, text_arg(args.sector), clamp_unit(mt.val), clamp_unit(mp.val))
        ELSE Params(0, OpenMaxDays, <<>>, <<>>, 0, 0)

\* the two tests of require_api_key the other way round: the request's key is
\* looked at before the configured one
key_before_configuration(api_key, expected) ==
    IF api_key = <<>> \/ api_key # expected THEN 401
    ELSE IF expected = <<>> THEN 503
    ELSE 0

\* secure_app.require_api_key: 0 lets the request through
require_api_key(api_key, expected) ==
    IF expected = <<>> THEN 503
    ELSE IF api_key = <<>> \/ api_key # expected THEN 401
    ELSE 0

-----------------------------------------------------------------------------
(* Responses *)

Response(status, items, total, filters) ==
    [status |-> status, items |-> items, total |-> total, filters |-> filters]

\* an error response: 400, 401, 500 or 503 with an error body
Error(status) == Response(status, <<>>, 0, NoParams)

\* the outcome of a step of a handler that may raise
Ok(val) == [ok |-> TRUE, val |-> val]
Raised == [ok |-> FALSE, val |-> <<>>]

\* rec[key] >= threshold: raises on a missing key (KeyError) or a value that is
\* no number (TypeError)
ItemGe(rec, key, threshold) ==
    IF key \notin DOMAIN rec \/ ~IsNumber(rec[key]) THEN Raised
    ELSE Ok(rec[key].n >= threshold)

\* rec.get(key, 0) >= threshold: raises on a value that is no number (TypeError)
GetGe(rec, key, threshold) ==
    IF key \notin DOMAIN rec THEN Ok(0 >= threshold)
    ELSE IF ~IsNumber(rec[key]) THEN Raised
    ELSE Ok(rec[key].n >= threshold)

\* isinstance(rec.get(key), (int, float)) and rec[key] >= threshold
GuardedGe(rec, key, threshold) ==
    key \in DOMAIN rec /\ IsNumber(rec[key]) /\ rec[key].n >= threshold

\* rec.get(key) == text
GetEq(rec, key, text) ==
    key \in DOMAIN rec /\ rec[key].t = "str" /\ rec[key].s = text

\* [x for x in list if datetime.strptime(x['announcement_date'], ...) >= cutoff]:
\* the comprehension raises as soon as one record's date raises
app_date_filter(list, cutoff) ==
    IF \E i \in 1..Len(list) : ~strptime(list[i]).ok THEN Raised
    ELSE Ok(SelectSeq(list, LAMBDA x : MidnightGe(strptime(x).ord, cutoff)))

\* the loop with filtered.insert(0, x) for filtered.append(x): the kept records,
\* newest position first
secure_date_filter_reversed(list, cutoff) ==
    LET kept == SelectSeq(list, LAMBDA x : strptime(x).ok /\ MidnightGe(strptime(x).ord, cutoff))
    IN  [i \in 1..Len(kept) |-> kept[Len(kept) + 1 - i]]

\* the secure app's loop: a record whose date raises is skipped
secure_date_filter(list, cutoff) ==
    SelectSeq(list, LAMBDA x : strptime(x).ok /\ MidnightGe(strptime(x).ord, cutoff))

\* [x for x in list if x[key] >= threshold]
app_item_filter(list, key, threshold) ==
    IF \E i \in 1..Len(list) : ~ItemGe(list[i], key, threshold).ok THEN Raised
    ELSE Ok(SelectSeq(list, LAMBDA x : ItemGe(x, key, threshold).val))

\* [x for x in list if x.get(key, 0) >= threshold]
app_get_filter(list, key, threshold) ==
    IF \E i \in 1..Len(list) : ~GetGe(list[i], key, threshold).ok THEN Raised
    ELSE Ok(SelectSeq(list, LAMBDA x : GetGe(x, key, threshold).val))

\* [x for x in list if x[key] == text]: raises on a missing key
app_item_eq_filter(list, key, text) ==
    IF \E i \in 1..Len(list) : key \notin DOMAIN list[i] THEN Raised
    ELSE Ok(SelectSeq(list, LAMBDA x : GetEq(x, key, text)))

\* [x for x in list if isinstance(x.get(key), (int, float)) and x[key] >= threshold]
secure_score_filter(list, key, threshold) ==
    SelectSeq(list, LAMBDA x : GuardedGe(x, key, threshold))

\* [x for x in list if x.get(key) == text]
get_eq_filter(list, key, text) == SelectSeq(list, LAMBDA x : GetEq(x, key, text))

\* DashboardData.load_latest_* of the secure app: data[:1000]
secure_load(data) == Take(data, LoadCap)

-----------------------------------------------------------------------------
(* /api/commitments and /api/funding *)

\* app.api_commitments: the response to args at time now
app_commitments_response(list, args, now) ==
    LET p == app_commitments_params(args)
        dated == app_date_filter(list, MinusDays(now, p.days_back))
        scored == IF ~dated.ok THEN Raised
                  ELSE IF p.min_relevance > 0
                  THEN app_item_filter(dated.val, "relevance_score", p.min_relevance)
                  ELSE dated
        typed == IF ~scored.ok THEN Raised
                 ELSE IF p.commitment_type # <<>>
                 THEN app_item_eq_filter(scored.val, "commitment_type", p.commitment_type)
                 ELSE scored
    IN  IF typed.ok THEN Response(200, typed.val, Len(typed.val), p) ELSE Error(500)

\* app.api_funding: the response to args at time now
app_funding_response(list, args, now) ==
    LET p == app_funding_params(args)
        dated == app_date_filter(list, MinusDays(now, p.days_back))
        scored == IF ~dated.ok THEN Raised
                  ELSE IF p.min_relevance > 0
                  THEN app_get_filter(dated.val, "dovu_relevance", p.min_relevance)
                  ELSE dated
        sectored == IF ~scored.ok THEN Raised
                    ELSE IF p.sector # <<>>
                    THEN Ok(get_eq_filter(scored.val, "sector", p.sector))
                    ELSE scored
        threat == IF ~sectored.ok THEN Raised
                  ELSE IF p.min_threat > 0
                  THEN app_get_filter(sectored.val, "competitive_threat", p.min_threat)
                  ELSE sectored
        partner == IF ~threat.ok THEN Raised
                   ELSE IF p.min_partnership > 0
                   THEN app_get_filter(threat.val, "partnership_opportunity",
                                       p.min_partnership)
                   ELSE threat
    IN  IF partner.ok THEN Response(200, partner.val, Len(partner.val), p)
        ELSE Error(500)

\* secure_app.api_commitments behind require_api_key
secure_commitments_response(list, args, api_key, expected, now) ==
    LET auth == require_api_key(api_key, expected)
        v == validate_query_params(args)
        p == v.params
        dated == secure_date_filter(secure_load(list), MinusDays(now, p.days_back))
        scored == IF p.min_relevance > 0
                  THEN secure_score_filter(dated, "relevance_score", p.min_relevance)
                  ELSE dated
        typed == IF p.commitment_type # <<>>
                 THEN get_eq_filter(scored, "commitment_type", p.commitment_type)
                 ELSE scored
    IN  IF auth # 0 THEN Error(auth)
        ELSE IF ~v.ok THEN Error(400)
        ELSE Response(200, Take(typed, ResponseCap), Len(typed), p)

\* secure_app.api_funding behind require_api_key
secure_funding_response(list, args, api_key, expected, now) ==
    LET auth == require_api_key(api_key, expected)
        v == validate_query_params(args)
        p == v.params
        dated == secure_date_filter(secure_load(list), MinusDays(now, p.days_back))
        scored == IF p.min_relevance > 0
                  THEN secure_score_filter(dated, "dovu_relevance", p.min_relevance)
                  ELSE dated
        sectored == IF p.sector # <<>>
                    THEN get_eq_filter(scored, "sector", p.sector)
                    ELSE scored
        threat == IF p.min_threat > 0
                  THEN secure_score_filter(sectored, "competitive_threat", p.min_threat)
                  ELSE sectored
        partner == IF p.min_partnership > 0
                   THEN secure_score_filter(threat, "partnership_opportunity",
                                            p.min_partnership)
                   ELSE threat
    IN  IF auth # 0 THEN Error(auth)
        ELSE IF ~v.ok THEN Error(400)
        ELSE Response(200, Take(partner, ResponseCap), Len(partner), p)

-----------------------------------------------------------------------------
(* The inputs: records, snapshots, clocks and requests *)

\* str literals
NetZero == <<110, 101, 116, 45, 122, 101, 114, 111>>             \* "net-zero"
Other == <<111, 116, 104, 101, 114>>                             \* "other"
Script == <<60, 115, 99, 114, 105, 112, 116, 62>>                \* "<script>"
ClimateTech == <<99, 108, 105, 109, 97, 116, 101, 45, 116, 101, 99, 104>>  \* "climate-tech"
High == <<104, 105, 103, 104>>                                   \* "high"
ApiKey == <<107, 49>>                                            \* "k1"
WrongKey == <<107, 50>>                                          \* "k2"

\* the request clock: 2026-03-10, at midnight sharp and at noon
Nows == {[ord |-> ymd2ord(2026, 3, 10), sec |-> sec] : sec \in {0, 43200}}

\* dates as the writers format them (strftime('%Y-%m-%d'))
Today == strftime(2026, 3, 10)
Ago180 == strftime(2025, 9, 11)      \* 180 days before Today
Ago200 == strftime(2025, 8, 22)      \* 200 days before Today

Commitment(company, date, type, score) ==
    [company |-> Str(<<company>>), announcement_date |-> date,
     commitment_type |-> Str(type), relevance_score |-> score,
     dovu_opportunity |-> Str(<<>>), source_url |-> Str(<<>>)]

FundingEvent(company, date, sector, relevance, threat, partnership) ==
    [company |-> Str(<<company>>), announcement_date |-> date,
     funding_type |-> Str(<<>>), amount |-> Str(<<>>), sector |-> Str(sector),
     business_model |-> Str(<<>>), source_url |-> Str(<<>>),
     dovu_relevance |-> relevance, competitive_threat |-> threat,
     partnership_opportunity |-> partnership]

\* the record without key k
Without(rec, k) == [x \in DOMAIN rec \ {k} |-> rec[x]]

\* the kinds of record a snapshot is made of: well formed, on the edge of the
\* 180 day window, older than it, with a date that does not parse, with a
\* score that is no number or missing
CommitmentKinds ==
    << Commitment(65, Str(Today), NetZero, Num(85)),
       Commitment(66, Str(Ago180), Other, Num(60)),
       Commitment(67, Str(Ago200), NetZero, Num(70)),
       Commitment(68, Str(<<>>), NetZero, Num(90)),
       Commitment(69, Str(Today), NetZero, Str(High)) >>

FundingKinds ==
    << FundingEvent(70, Str(Today), ClimateTech, Num(85), Num(70), Num(60)),
       FundingEvent(71, Str(Ago180), Other, Num(60), Num(60), Num(90)),
       FundingEvent(72, Str(Ago200), ClimateTech, Num(70), Num(95), Num(30)),
       Without(FundingEvent(73, None, ClimateTech, Num(90), Num(90), Num(90)),
               "announcement_date"),
       Without(FundingEvent(74, Str(Today), ClimateTech, None, Str(High), Num(55)),
               "dovu_relevance") >>

Kinds == 1..Len(CommitmentKinds)

Snapshot(c, f) == [commitments |-> c, funding |-> f]

\* the small snapshots: up to MaxSnap records of every kind, in every order
SmallSnapshots ==
    UNION { { Snapshot([i \in 1..n |-> CommitmentKinds[ks[i]]],
                       [i \in 1..n |-> FundingKinds[ks[i]]]) : ks \in [1..n -> Kinds] }
            : n \in 0..MaxSnap }

\* the bulk snapshots: ResponseCap records of one kind, then BulkOver of another
BulkSnapshots ==
    { Snapshot([i \in 1..(ResponseCap + BulkOver) |->
                    CommitmentKinds[IF i <= ResponseCap THEN a ELSE b]],
               [i \in 1..(ResponseCap + BulkOver) |->
                    FundingKinds[IF i <= ResponseCap THEN a ELSE b]])
      : a \in {1, 2}, b \in {1, 2} }

Args(mr, days, type, sector, mt, mp) ==
    [min_relevance |-> mr, days |-> days, type |-> type, sector |-> sector,
     min_threat |-> mt, min_partnership |-> mp]

NoArgs == Args(Absent, Absent, NoText, NoText, Absent, Absent)

Threshold == {Absent, NumArg(-50), NumArg(60), NumArg(150)}

\* query strings of /api/commitments
CommitmentArgs ==
    { Args(mr, d, NoText, NoText, Absent, Absent) :
        mr \in Threshold \cup {BadArg, NanArg},
        d \in {Absent, BadArg, NumArg(0), NumArg(30), NumArg(365)} }
    \cup
    { Args(mr, Absent, Text(t), NoText, mt, Absent) :
        mr \in {Absent, NumArg(60)},
        t \in {NetZero, Script, NetZero \o <<10>>},
        mt \in {Absent, BadArg} }
    \cup
    { Args(n[1], n[2], Text(NetZero), NoText, Absent, Absent) :
        n \in { <<BadArg, NumArg(30)>>, <<NumArg(60), BadArg>> } }

\* query strings of /api/funding
FundingArgs ==
    { Args(mr, Absent, NoText, NoText, mt, mp) :
        mr \in Threshold, mt \in Threshold, mp \in Threshold }
    \cup
    { Args(mr, d, NoText, NoText, mt, mp) :
        mr \in {NumArg(60), BadArg, NanArg}, d \in {Absent, BadArg},
        mt \in {Absent, BadArg, NanArg}, mp \in {Absent, BadArg, NanArg} }
    \cup
    { Args(mr, d, NoText, se, Absent, Absent) :
        mr \in {Absent, NumArg(60)},
        d \in {Absent, NumArg(0), NumArg(30), NumArg(365)},
        se \in {NoText, Text(ClimateTech), Text(Script)} }
    \cup
    { Args(n[1], n[2], NoText, Text(ClimateTech), n[3], n[4]) :
        n \in { <<BadArg, NumArg(30), NumArg(60), NumArg(60)>>,
                <<NumArg(60), BadArg, NumArg(60), NumArg(60)>>,
                <<NumArg(60), NumArg(30), BadArg, NumArg(60)>>,
                <<NumArg(60), NumArg(30), NumArg(60), BadArg>> } }

Request(endpoint, app, args, api_key, now) ==
    [endpoint |-> endpoint, app |-> app, args |-> args, api_key |-> api_key,
     now |-> now]

NoRequest == Request("none", "none", NoArgs, <<>>, [ord |-> 0, sec |-> 0])
NoResponse == Error(0)

\* X-API-Key of the requests to the secure app: the right key with every query
\* string, no key or a wrong one with the empty query string and with a query
\* string that does not validate
SecureCalls(argset) ==
    { <<a, ApiKey>> : a \in argset }
    \cup { <<a, k>> : a \in {NoArgs, Args(BadArg, Absent, NoText, NoText, Absent, Absent)},
                      k \in {<<>>, WrongKey} }

-----------------------------------------------------------------------------
(* The filter endpoints as actions *)

\* GET /api/commitments of an app that keeps what it filtered in place of what
\* it loaded
app_api_commitments_in_place ==
    /\ pc = "idle"
    /\ \E args \in CommitmentArgs, now \in Nows :
        /\ req' = Request("commitments", "app", args, <<>>, now)
        /\ resp' = app_commitments_response(commitments, args, now)
        /\ commitments' = app_commitments_response(commitments, args, now).items
    /\ pc' = "done"
    /\ UNCHANGED <<funding, expected_key, alerts, disk, writer, called, outcome>>

\* GET /api/commitments of the open app
app_api_commitments ==
    /\ pc = "idle"
    /\ \E args \in CommitmentArgs, now \in Nows :
        /\ req' = Request("commitments", "app", args, <<>>, now)
        /\ resp' = app_commitments_response(commitments, args, now)
    /\ pc' = "done"
    /\ UNCHANGED <<commitments, funding, expected_key, alerts, disk, writer, called, outcome>>

\* GET /api/funding of the open app
app_api_funding ==
    /\ pc = "idle"
    /\ \E args \in FundingArgs, now \in Nows :
        /\ req' = Request("funding", "app", args, <<>>, now)
        /\ resp' = app_funding_response(funding, args, now)
    /\ pc' = "done"
    /\ UNCHANGED <<commitments, funding, expected_key, alerts, disk, writer, called, outcome>>

\* GET /api/commitments of the secure app
secure_api_commitments ==
    /\ pc = "idle"
    /\ \E call \in SecureCalls(CommitmentArgs), now \in Nows :
        /\ req' = Request("commitments", "secure", call[1], call[2], now)
        /\ resp' = secure_commitments_response(commitments, call[1], call[2],
                                               expected_key, now)
    /\ pc' = "done"
    /\ UNCHANGED <<commitments, funding, expected_key, alerts, disk, writer, called, outcome>>

\* GET /api/funding of the secure app
secure_api_funding ==
    /\ pc = "idle"
    /\ \E call \in SecureCalls(FundingArgs), now \in Nows :
        /\ req' = Request("funding", "secure", call[1], call[2], now)
        /\ resp' = secure_funding_response(funding, call[1], call[2],
                                           expected_key, now)
    /\ pc' = "done"
    /\ UNCHANGED <<commitments, funding, expected_key, alerts, disk, writer, called, outcome>>

\* the response is sent; the worker waits for the next request
Return ==
    /\ pc = "done"
    /\ pc' = "idle"
    /\ req' = NoRequest
    /\ resp' = NoResponse
    /\ alerts' = <<>>
    /\ UNCHANGED <<commitments, funding, expected_key, disk, writer, called, outcome>>

Idle ==
    /\ pc = "idle"
    /\ req = NoRequest
    /\ resp = NoResponse
    /\ alerts = <<>>

\* the value of a variable that a specification leaves aside
Unused == [t |-> "unused"]

\* no collection loop runs beside the app and no scraper function is called
AppAlone ==
    /\ disk = Unused
    /\ writer = Unused
    /\ called = Unused
    /\ outcome = Unused

\* the filter endpoints of both apps over the small and the bulk snapshots
Init ==
    /\ \E snap \in SmallSnapshots \cup BulkSnapshots :
        /\ commitments = snap.commitments
        /\ funding = snap.funding
    /\ expected_key = ApiKey
    /\ Idle
    /\ AppAlone

Next ==
    \/ app_api_commitments
    \/ app_api_funding
    \/ secure_api_commitments
    \/ secure_api_funding
    \/ Return

Spec == Init /\ [][Next]_vars

-----------------------------------------------------------------------------
(* /api/alerts *)

Unknown == <<85, 110, 107, 110, 111, 119, 110>>                  \* "Unknown"

Alert(type, priority, title, date) ==
    [type |-> type, priority |-> priority, title |-> title, date |-> date]

\* a < b on two sort keys; the caller has checked they are comparable
KeyLt(a, b) == IF a.t = "str" THEN StrLt(a.s, b.s) ELSE a.n < b.n

\* list.sort compares the keys of a list of two or more: str with str, number
\* with number; anything else is a TypeError
Sortable(list) ==
    \/ Len(list) <= 1
    \/ \A i \in 1..Len(list) : list[i].date.t = "str"
    \/ \A i \in 1..Len(list) : list[i].date.t = "num"

\* x in its place in a list sorted by date, newest first, in front of the
\* alerts of its own date: the order a sort that is not stable may give
RECURSIVE insert_before_equal(_, _)
insert_before_equal(sorted, x) ==
    IF sorted = <<>> THEN <<x>>
    ELSE IF ~KeyLt(x.date, sorted[1].date) THEN <<x>> \o sorted
    ELSE <<sorted[1]>> \o insert_before_equal(Tail(sorted), x)

\* x in its place in a list sorted by date, newest first: behind every alert
\* whose date is not smaller (the sort is stable)
RECURSIVE Insert(_, _)
Insert(sorted, x) ==
    IF sorted = <<>> THEN <<x>>
    ELSE IF KeyLt(sorted[1].date, x.date) THEN <<x>> \o sorted
    ELSE <<sorted[1]>> \o Insert(Tail(sorted), x)

\* alerts.sort(key=lambda x: x['date'], reverse=True)
RECURSIVE SortByDate(_)
SortByDate(list) ==
    IF list = <<>> THEN <<>>
    ELSE Insert(SortByDate(SubSeq(list, 1, Len(list) - 1)), list[Len(list)])

\* the open app's test of one commitment:
\* strptime(c['announcement_date']) >= week_ago and c['relevance_score'] > 0.6
app_recent_high(c, week_ago) ==
    IF ~strptime(c).ok THEN Raised
    ELSE IF ~MidnightGe(strptime(c).ord, week_ago) THEN Ok(FALSE)
    ELSE IF "relevance_score" \notin DOMAIN c \/ ~IsNumber(c.relevance_score)
    THEN Raised
    ELSE Ok(c.relevance_score.n > HighScore)

\* the open app's commitment alert: the keys it reads must be there
app_commitment_alert(c) ==
    IF {"company", "commitment_type", "dovu_opportunity"} \subseteq DOMAIN c
    THEN Ok(Alert("commitment", "high", c.company, c.announcement_date))
    ELSE Raised

\* the open app's test of one funding event: f.get(key, 0) > 0.6
app_over(f, key) ==
    IF key \notin DOMAIN f THEN Ok(FALSE)
    ELSE IF ~IsNumber(f[key]) THEN Raised
    ELSE Ok(f[key].n > HighScore)

\* the open app's threat or partnership alert: `needs` are the keys it reads
app_funding_alert(f, type, priority, needs) ==
    IF needs \subseteq DOMAIN f
    THEN Ok(Alert(type, priority, f.company, f.announcement_date))
    ELSE Raised

\* the alerts of one family in list order, or the exception of the first
\* record that raises: tests[i] is the outcome of the test of the i-th
\* record, made[i] the outcome of building its alert
Family(tests, made) ==
    IF \E i \in 1..Len(tests) :
            \/ ~tests[i].ok
            \/ tests[i].val /\ ~made[i].ok
    THEN Raised
    ELSE LET hits == SelectSeq([i \in 1..Len(tests) |-> i], LAMBDA i : tests[i].val)
         IN  Ok([k \in 1..Len(hits) |-> made[hits[k]].val])

\* app.api_alerts: the list `alerts` after the sort, or the exception
app_alerts(cs, fs, now) ==
    LET week_ago == MinusDays(now, AlertDays)
        high == Family([i \in 1..Len(cs) |-> app_recent_high(cs[i], week_ago)],
                       [i \in 1..Len(cs) |-> app_commitment_alert(cs[i])])
        threats == Family([i \in 1..Len(fs) |-> app_over(fs[i], "competitive_threat")],
                          [i \in 1..Len(fs) |->
                              app_funding_alert(fs[i], "threat", "urgent",
                                  {"company", "funding_type", "announcement_date"})])
        partnerships == Family([i \in 1..Len(fs) |->
                                   app_over(fs[i], "partnership_opportunity")],
                               [i \in 1..Len(fs) |->
                                   app_funding_alert(fs[i], "partnership", "medium",
                                       {"company", "business_model", "announcement_date"})])
        all == high.val \o threats.val \o partnerships.val
    IN  IF high.ok /\ threats.ok /\ partnerships.ok /\ Sortable(all)
        THEN Ok(SortByDate(all))
        ELSE Raised

\* the secure app's test of one commitment, inside try/except
secure_recent_high(c, week_ago) ==
    /\ strptime(c).ok
    /\ MidnightGe(strptime(c).ord, week_ago)
    /\ "relevance_score" \in DOMAIN c
    /\ IsNumber(c.relevance_score)
    /\ c.relevance_score.n > HighScore

\* the secure app's test of one funding event
secure_over(f, key) == key \in DOMAIN f /\ IsNumber(f[key]) /\ f[key].n > HighScore

secure_commitment_alert(c) ==
    Alert("commitment", "high", Get(c, "company", Str(Unknown)), c.announcement_date)

secure_funding_alert(f, type, priority) ==
    Alert(type, priority, Get(f, "company", Str(Unknown)),
          Get(f, "announcement_date", Str(<<>>)))

\* secure_app.api_alerts: the list `alerts` after the sort, or the exception
\* the outer try turns into a 500
secure_alerts(cs, fs, now) ==
    LET week_ago == MinusDays(now, AlertDays)
        high == SelectSeq(cs, LAMBDA c : secure_recent_high(c, week_ago))
        threats == SelectSeq(fs, LAMBDA f : secure_over(f, "competitive_threat"))
        partnerships == SelectSeq(fs, LAMBDA f : secure_over(f, "partnership_opportunity"))
        all == [i \in 1..Len(high) |-> secure_commitment_alert(high[i])]
               \o [i \in 1..Len(threats) |->
                      secure_funding_alert(threats[i], "threat", "urgent")]
               \o [i \in 1..Len(partnerships) |->
                      secure_funding_alert(partnerships[i], "partnership", "medium")]
    IN  IF Sortable(all) THEN Ok(SortByDate(all)) ELSE Raised

\* jsonify({'alerts': alerts, 'total': len(alerts)}): the response without its
\* slice, which C11 must tell from the response of the code
alerts_response_whole(sorted) ==
    IF sorted.ok THEN Response(200, sorted.val, Len(sorted.val), NoParams)
    ELSE Error(500)

\* jsonify({'alerts': alerts[:20], 'total': len(alerts)}), or the 500
alerts_response(sorted) ==
    IF sorted.ok THEN Response(200, Take(sorted.val, AlertCap), Len(sorted.val), NoParams)
    ELSE Error(500)

\* GET /api/alerts of the open app
app_api_alerts ==
    /\ pc = "idle"
    /\ \E now \in Nows :
        LET sorted == app_alerts(commitments, funding, now) IN
        /\ req' = Request("alerts", "app", NoArgs, <<>>, now)
        /\ alerts' = sorted.val
        /\ resp' = alerts_response(sorted)
    /\ pc' = "done"
    /\ UNCHANGED <<commitments, funding, expected_key, disk, writer, called, outcome>>

\* GET /api/alerts of the secure app
secure_api_alerts ==
    /\ pc = "idle"
    /\ \E api_key \in {ApiKey, WrongKey, <<>>}, now \in Nows :
        LET auth == require_api_key(api_key, expected_key)
            sorted == secure_alerts(secure_load(commitments), secure_load(funding), now)
        IN  /\ req' = Request("alerts", "secure", NoArgs, api_key, now)
            /\ alerts' = IF auth = 0 THEN sorted.val ELSE <<>>
            /\ resp' = IF auth = 0 THEN alerts_response(sorted) ELSE Error(auth)
    /\ pc' = "done"
    /\ UNCHANGED <<commitments, funding, expected_key, disk, writer, called, outcome>>

\* dates of the alert snapshots
Ago7 == strftime(2026, 3, 3)         \* 7 days before Today
Ago400 == strftime(2025, 2, 3)       \* 400 days before Today
Yesterday == <<50, 48, 50, 54, 45, 51, 45, 57>>   \* "2026-3-9", as strptime accepts it

\* commitments: alerting, on the edge of the 7 days, on the edge of the score,
\* dated without zero padding, with a date that does not parse, 400 days old
AlertCommitmentKinds ==
    { Commitment(65, Str(Today), NetZero, Num(85)),
      Commitment(66, Str(Ago7), NetZero, Num(90)),
      Commitment(67, Str(Today), Other, Num(60)),
      Commitment(68, Str(Yesterday), NetZero, Num(70)),
      Commitment(69, Str(<<>>), NetZero, Num(90)),
      Commitment(70, Str(Ago400), NetZero, Num(95)) }

\* funding events: a threat, a threat and a partnership 400 days old, a
\* partnership dated without zero padding, a threat with no date at all
AlertFundingKinds ==
    { FundingEvent(71, Str(Today), ClimateTech, Num(85), Num(70), Num(60)),
      FundingEvent(72, Str(Ago400), ClimateTech, Num(50), Num(95), Num(90)),
      FundingEvent(73, Str(Yesterday), Other, Num(50), Num(30), Num(80)),
      Without(FundingEvent(74, None, Other, Num(50), Num(90), Str(High)),
              "announcement_date") }

SeqsUpTo(S, n) == UNION { [1..k -> S] : k \in 0..n }

\* snapshots that derive more alerts than one response holds: AlertCap \div 2
\* funding events over both thresholds, then BulkOver events of another kind,
\* with no commitment or an alerting one
BulkAlertSnapshots ==
    { Snapshot(c,
               [i \in 1..((AlertCap \div 2) + BulkOver) |->
                    IF i <= AlertCap \div 2
                    THEN FundingEvent(72, Str(Ago400), ClimateTech, Num(50), Num(95), Num(90))
                    ELSE f])
      : c \in SeqsUpTo({Commitment(65, Str(Today), NetZero, Num(85))}, 1),
        f \in { FundingEvent(71, Str(Today), ClimateTech, Num(85), Num(70), Num(60)),
                FundingEvent(73, Str(Yesterday), Other, Num(50), Num(30), Num(80)) } }

\* the alerts endpoint of both apps over every pair of small lists and over
\* the bulk snapshots
InitAlerts ==
    /\ \/ /\ commitments \in SeqsUpTo(AlertCommitmentKinds, MaxSnap)
          /\ funding \in SeqsUpTo(AlertFundingKinds, MaxSnap)
       \/ \E snap \in BulkAlertSnapshots :
            /\ commitments = snap.commitments
            /\ funding = snap.funding
    /\ expected_key = ApiKey
    /\ Idle
    /\ AppAlone

NextAlerts ==
    \/ app_api_alerts
    \/ secure_api_alerts
    \/ Return

SpecAlerts == InitAlerts /\ [][NextAlerts]_vars

-----------------------------------------------------------------------------
(* The data collection loop beside the app (run_dashboard.py) *)

\* collection cycles of the background loop that are followed
MaxBatch == 2

\* what the scrapers collect in cycle b: one commitment and one funding event
\* that name the cycle
Batch(b) ==
    Snapshot(<<Commitment(65 + b, Str(Today), NetZero, Num(85))>>,
             <<FundingEvent(75 + b, Str(Today), ClimateTech, Num(85), Num(70), Num(60))>>)

\* a file of the data directory: the list json.dump is given and how much of
\* its text is in the file: "empty" after open(filename, 'w'), "partial" after
\* a flush of the buffer, "whole" after the close
File(data, text) == [data |-> data, text |-> text]

\* json.load of the newest file inside the loader's try: a text that is not
\* whole is a JSONDecodeError and the loader returns []
load_latest(file) == IF file.text = "whole" THEN file.data ELSE <<>>

\* the loader of the app that serves the request
load_of(app, file) ==
    IF app = "secure" THEN secure_load(load_latest(file)) ELSE load_latest(file)

\* the loop is at `at` in cycle `batch`
Writer(at, batch) == [at |-> at, batch |-> batch]

\* collect_data, save_commitments: open(filename, 'w') truncates the file of
\* the day (or creates the newest file)
collect_open_commitments ==
    /\ writer.at = "sleeping" /\ writer.batch < MaxBatch
    /\ writer' = Writer("commitments_open", writer.batch + 1)
    /\ disk' = [disk EXCEPT !.commitments =
                    File(Batch(writer.batch + 1).commitments, "empty")]
    /\ UNCHANGED <<commitments, funding, expected_key, pc, req, alerts, resp,
                   called, outcome>>

\* json.dump has filled the buffer and part of the text reaches the file
collect_flush_commitments ==
    /\ writer.at = "commitments_open" /\ disk.commitments.text = "empty"
    /\ disk' = [disk EXCEPT !.commitments.text = "partial"]
    /\ UNCHANGED <<commitments, funding, expected_key, pc, req, alerts, resp,
                   writer, called, outcome>>

\* the with block of save_commitments ends: the file is closed
collect_close_commitments ==
    /\ writer.at = "commitments_open"
    /\ writer' = Writer("commitments_saved", writer.batch)
    /\ disk' = [disk EXCEPT !.commitments.text = "whole"]
    /\ UNCHANGED <<commitments, funding, expected_key, pc, req, alerts, resp,
                   called, outcome>>

\* collect_data, save_funding_events: open(filename, 'w')
collect_open_funding ==
    /\ writer.at = "commitments_saved"
    /\ writer' = Writer("funding_open", writer.batch)
    /\ disk' = [disk EXCEPT !.funding = File(Batch(writer.batch).funding, "empty")]
    /\ UNCHANGED <<commitments, funding, expected_key, pc, req, alerts, resp,
                   called, outcome>>

collect_flush_funding ==
    /\ writer.at = "funding_open" /\ disk.funding.text = "empty"
    /\ disk' = [disk EXCEPT !.funding.text = "partial"]
    /\ UNCHANGED <<commitments, funding, expected_key, pc, req, alerts, resp,
                   writer, called, outcome>>

\* the file is closed and the loop sleeps until the next cycle
collect_close_funding ==
    /\ writer.at = "funding_open"
    /\ writer' = Writer("sleeping", writer.batch)
    /\ disk' = [disk EXCEPT !.funding.text = "whole"]
    /\ UNCHANGED <<commitments, funding, expected_key, pc, req, alerts, resp,
                   called, outcome>>

\* GET /api/alerts, first statement: commitments = load_latest_commitments()
alerts_load_commitments ==
    /\ pc = "idle"
    /\ \E app \in {"app", "secure"}, now \in Nows :
        /\ req' = Request("alerts", app, NoArgs, IF app = "secure" THEN ApiKey ELSE <<>>, now)
        /\ commitments' = load_of(app, disk.commitments)
    /\ pc' = "loading"
    /\ UNCHANGED <<funding, expected_key, alerts, resp, disk, writer, called, outcome>>

\* GET /api/alerts, the rest: funding = load_latest_funding(), the alerts
\* and the response
alerts_load_funding ==
    /\ pc = "loading"
    /\ LET loaded == load_of(req.app, disk.funding)
           sorted == IF req.app = "secure"
                     THEN secure_alerts(commitments, loaded, req.now)
                     ELSE app_alerts(commitments, loaded, req.now)
       IN  /\ funding' = loaded
           /\ alerts' = sorted.val
           /\ resp' = alerts_response(sorted)
    /\ pc' = "done"
    /\ UNCHANGED <<commitments, expected_key, req, disk, writer, called, outcome>>

\* the initial collection of DashboardOrchestrator.run is on disk, the loop
\* and the app start
InitRefresh ==
    /\ disk = [commitments |-> File(Batch(0).commitments, "whole"),
               funding |-> File(Batch(0).funding, "whole")]
    /\ writer = Writer("sleeping", 0)
    /\ commitments = <<>>
    /\ funding = <<>>
    /\ expected_key = ApiKey
    /\ Idle
    /\ called = Unused
    /\ outcome = Unused

NextRefresh ==
    \/ collect_open_commitments
    \/ collect_flush_commitments
    \/ collect_close_commitments
    \/ collect_open_funding
    \/ collect_flush_funding
    \/ collect_close_funding
    \/ alerts_load_commitments
    \/ alerts_load_funding
    \/ Return

SpecRefresh == InitRefresh /\ [][NextRefresh]_vars

-----------------------------------------------------------------------------
(* str methods and the number pattern of the amount parsers *)

\* str.lower and str.upper on ASCII text
lower(s) == [i \in 1..Len(s) |-> IF s[i] \in 65..90 THEN s[i] + 32 ELSE s[i]]
upper(s) == [i \in 1..Len(s) |-> IF s[i] \in 97..122 THEN s[i] - 32 ELSE s[i]]

\* sub in s
Contains(s, sub) ==
    \E i \in 1..(Len(s) - Len(sub) + 1) : SubSeq(s, i, i + Len(sub) - 1) = sub

\* any(keyword in s for keyword in keywords)
ContainsAny(s, keywords) == \E k \in keywords : Contains(s, k)

\* s.replace(',', '')
without_commas(s) == SelectSeq(s, LAMBDA c : c # 44)

\* re.sub(r'[^\d.MBK]', '', s): the digits, the dots and the letters M, B, K stay
only_amount_chars(s) == SelectSeq(s, LAMBDA c : IsDigit(c) \/ c \in {46, 77, 66, 75})

\* the end of the run of digits that starts at position i
RECURSIVE DigitsEnd(_, _)
DigitsEnd(s, i) == IF i < Len(s) /\ IsDigit(s[i + 1]) THEN DigitsEnd(s, i + 1) ELSE i

\* the number the digits of s spell after the number acc
RECURSIVE DigitsValue(_, _)
DigitsValue(s, acc) ==
    IF s = <<>> THEN acc ELSE DigitsValue(Tail(s), 10 * acc + Digit(s[1]))

RECURSIVE Pow10(_)
Pow10(k) == IF k = 0 THEN 1 ELSE 10 * Pow10(k - 1)

\* a float kept exact: n / d
Ratio(n, d) == [t |-> "float", n |-> n, d |-> d]

\* re.search(r'(\d+(?:\.\d+)?)', s): the leftmost run of digits, with a dot
\* and the digits after it when a digit follows the dot; found = FALSE is no
\* match; value is float(match.group(1)), from and to the span of the match
number_search(s) ==
    IF ~\E i \in 1..Len(s) : IsDigit(s[i])
    THEN [found |-> FALSE, value |-> Ratio(0, 1), from |-> 0, to |-> 0]
    ELSE
    LET from == CHOOSE i \in 1..Len(s) : IsDigit(s[i]) /\ \A j \in 1..(i - 1) : ~IsDigit(s[j])
        last == DigitsEnd(s, from)
        frac == last + 2 <= Len(s) /\ s[last + 1] = 46 /\ IsDigit(s[last + 2])
        to == IF frac THEN DigitsEnd(s, last + 2) ELSE last
        digits == SelectSeq(SubSeq(s, from, to), IsDigit)
    IN  [found |-> TRUE,
         value |-> Ratio(DigitsValue(digits, 0), IF frac THEN Pow10(to - last - 1) ELSE 1),
         from |-> from, to |-> to]

\* value * 1000 and value / 1000
times_1000(v) == Ratio(v.n * 1000, v.d)
over_1000(v) == Ratio(v.n, v.d * 1000)

-----------------------------------------------------------------------------
(* The amount parsers *)

LetterB == 66
LetterM == 77
LetterK == 75
Billion == <<98, 105, 108, 108, 105, 111, 110>>      \* "billion"
Million == <<109, 105, 108, 108, 105, 111, 110>>      \* "million"
Thousand == <<116, 104, 111, 117, 115, 97, 110, 100>>   \* "thousand"

\* the scaling both app.py and funding-tracker.py apply: the first of B, M, K
\* found anywhere in the text decides
scale_by_text(amount_str, value) ==
    IF Contains(upper(amount_str), <<LetterB>>) \/ Contains(lower(amount_str), Billion)
    THEN times_1000(value)
    ELSE IF Contains(upper(amount_str), <<LetterM>>) \/ Contains(lower(amount_str), Million)
    THEN value
    ELSE IF Contains(upper(amount_str), <<LetterK>>) \/ Contains(lower(amount_str), Thousand)
    THEN over_1000(value)
    ELSE value

\* app.DashboardData.parse_funding_amount
app_parse_funding_amount(amount_str) ==
    IF amount_str = <<>> THEN Ratio(0, 1)
    ELSE LET match == number_search(without_commas(amount_str))
         IN  IF ~match.found THEN Ratio(0, 1)
             ELSE scale_by_text(amount_str, match.value)

\* funding-tracker.ClimateVCTracker.parse_funding_amount: None where the app
\* returns 0.0
tracker_parse_funding_amount(amount_str) ==
    IF amount_str = <<>> THEN None
    ELSE LET match == number_search(without_commas(amount_str))
         IN  IF ~match.found THEN None
             ELSE scale_by_text(amount_str, match.value)

\* secure_app.DashboardData.parse_funding_amount
secure_parse_funding_amount(amount_str) ==
    IF amount_str = <<>> THEN Ratio(0, 1)
    ELSE LET clean_amount == only_amount_chars(upper(amount_str))
             match == number_search(clean_amount)
         IN  IF ~match.found THEN Ratio(0, 1)
             ELSE IF Contains(clean_amount, <<LetterB>>) THEN times_1000(match.value)
             ELSE IF Contains(clean_amount, <<LetterM>>) THEN match.value
             ELSE IF Contains(clean_amount, <<LetterK>>) THEN over_1000(match.value)
             ELSE match.value

\* the amount strings: a currency sign or none, a number, a unit or none, a
\* remark or none; and the strings without a number or with two
AmountStrings ==
    { sign \o number \o unit \o remark :
        sign \in { <<>>, <<36>> },                                  \* "", "$"
        number \in { <<53>>, <<53, 48, 48>>, <<49>>, <<49, 46, 53>>,
                     <<49, 44, 50, 48, 48>> },          \* "5", "500", "1", "1.5", "1,200"
        unit \in { <<>>, <<LetterM>>, <<LetterB>>, <<LetterK>>,
                   <<32>> \o Million, <<32>> \o Billion, <<32>> \o Thousand },
        remark \in { <<>>, <<32, 100, 101, 98, 116>> } }            \* "", " debt"
    \cup { <<>>, <<103, 97, 114, 98, 97, 103, 101>>,
           <<36, 53, 45, 49, 48, 77>> }     \* "", "garbage", "$5-10M"

\* a call of one of the parsers with amount_str
Call(fn, args) == [fn |-> fn, args |-> args]

app_parse_amount_call ==
    /\ called.fn = "none"
    /\ called' = [called EXCEPT !.fn = "app.parse_funding_amount"]
    /\ outcome' = app_parse_funding_amount(called.args.amount_str)
    /\ UNCHANGED <<commitments, funding, expected_key, pc, req, alerts, resp, disk, writer>>

secure_parse_amount_call ==
    /\ called.fn = "none"
    /\ called' = [called EXCEPT !.fn = "secure_app.parse_funding_amount"]
    /\ outcome' = secure_parse_funding_amount(called.args.amount_str)
    /\ UNCHANGED <<commitments, funding, expected_key, pc, req, alerts, resp, disk, writer>>

tracker_parse_amount_call ==
    /\ called.fn = "none"
    /\ called' = [called EXCEPT !.fn = "funding-tracker.parse_funding_amount"]
    /\ outcome' = tracker_parse_funding_amount(called.args.amount_str)
    /\ UNCHANGED <<commitments, funding, expected_key, pc, req, alerts, resp, disk, writer>>

\* no app runs: only the function is called
NoApp ==
    /\ commitments = <<>>
    /\ funding = <<>>
    /\ expected_key = <<>>
    /\ Idle
    /\ disk = Unused
    /\ writer = Unused

InitAmounts ==
    /\ called \in { Call("none", [amount_str |-> a]) : a \in AmountStrings }
    /\ outcome = Unused
    /\ NoApp

NextAmounts ==
    \/ app_parse_amount_call
    \/ secure_parse_amount_call
    \/ tracker_parse_amount_call

SpecAmounts == InitAmounts /\ [][NextAmounts]_vars

-----------------------------------------------------------------------------
(* The funding tracker (scrapers/funding-tracker.py) *)

\* a raw record is a dict of str values; a score is a number of hundredths

\* data.get(key, ''), a str
GetStr(d, k) == IF k \in DOMAIN d THEN d[k].s ELSE <<>>

\* min(score, 1.0) left out: the score as summed
uncapped(score) == score

\* min(score, 1.0)
at_most_one(score) == IF 100 < score THEN 100 ELSE score

\* ClimateVCTracker.calculate_dovu_relevance.  The keyword lists, in the order
\* of the sum:
\*   'carbon credit', 'carbon trading', 'carbon platform'             0.4
\*   'supply chain', 'scope 3', 'value chain'                         0.3
\*   'tokenization', 'blockchain', 'digital asset'                    0.2
\*   'enterprise', 'b2b', 'platform', 'saas'                          0.1
\*   sector in 'carbon-management', 'climate-tech',
\*             'sustainability-software'                              0.2
ClimateVCTracker_calculate_dovu_relevance(data) ==
    LET description == lower(GetStr(data, "description"))
        sector == lower(GetStr(data, "sector"))
        score == (IF ContainsAny(description,
                   { <<99, 97, 114, 98, 111, 110, 32, 99, 114, 101, 100, 105, 116>>,
                     <<99, 97, 114, 98, 111, 110, 32, 116, 114, 97, 100, 105, 110, 103>>,
                     <<99, 97, 114, 98, 111, 110, 32, 112, 108, 97, 116, 102, 111, 114, 109>> })
                THEN 40 ELSE 0)
               + (IF ContainsAny(description,
                   { <<115, 117, 112, 112, 108, 121, 32, 99, 104, 97, 105, 110>>,
                     <<115, 99, 111, 112, 101, 32, 51>>,
                     <<118, 97, 108, 117, 101, 32, 99, 104, 97, 105, 110>> })
                THEN 30 ELSE 0)
               + (IF ContainsAny(description,
                   { <<116, 111, 107, 101, 110, 105, 122, 97, 116, 105, 111, 110>>,
                     <<98, 108, 111, 99, 107, 99, 104, 97, 105, 110>>,
                     <<100, 105, 103, 105, 116, 97, 108, 32, 97, 115, 115, 101, 116>> })
                THEN 20 ELSE 0)
               + (IF ContainsAny(description,
                   { <<101, 110, 116, 101, 114, 112, 114, 105, 115, 101>>,
                     <<98, 50, 98>>,
                     <<112, 108, 97, 116, 102, 111, 114, 109>>,
                     <<115, 97, 97, 115>> })
                THEN 10 ELSE 0)
               + (IF sector \in { <<99, 97, 114, 98, 111, 110, 45, 109, 97, 110, 97, 103, 101, 109, 101, 110, 116>>,
                                <<99, 108, 105, 109, 97, 116, 101, 45, 116, 101, 99, 104>>,
                                <<115, 117, 115, 116, 97, 105, 110, 97, 98, 105, 108, 105, 116, 121, 45, 115, 111, 102, 116, 119, 97, 114, 101>> }
                  THEN 20 ELSE 0)
    IN  at_most_one(score)

\* `if amount_value:` of an Optional[float]
Truthy(v) == v.t = "float" /\ v.n # 0

\* amount_value >= k
ratio_reaches(v, k) == v.n >= k * v.d

\* amount_value > k
RatioGt(v, k) == v.n > k * v.d
\* amount_value < k
RatioLt(v, k) == v.n < k * v.d

\* ClimateVCTracker.calculate_competitive_threat:
\*   'carbon credit' in description and 'platform' in description     0.6
\*   'tokenization' in description and 'carbon' in description        0.7
\*   amount over 50: score *= 1.5;  over 20: score *= 1.2 (on hundredths)
calculate_competitive_threat(data) ==
    LET description == lower(GetStr(data, "description"))
        funding_amount == IF "amount" \in DOMAIN data THEN data.amount.s ELSE <<48>>
        direct == (IF /\ Contains(description, <<99, 97, 114, 98, 111, 110, 32, 99, 114, 101, 100, 105, 116>>)
                      /\ Contains(description, <<112, 108, 97, 116, 102, 111, 114, 109>>)
                   THEN 60 ELSE 0)
                + (IF /\ Contains(description, <<116, 111, 107, 101, 110, 105, 122, 97, 116, 105, 111, 110>>)
                      /\ Contains(description, <<99, 97, 114, 98, 111, 110>>)
                   THEN 70 ELSE 0)
        amount_value == tracker_parse_funding_amount(funding_amount)
        score == IF Truthy(amount_value) /\ RatioGt(amount_value, 50) THEN (direct * 3) \div 2
                 ELSE IF Truthy(amount_value) /\ RatioGt(amount_value, 20) THEN (direct * 6) \div 5
                 ELSE direct
    IN  at_most_one(score)

\* ClimateVCTracker.calculate_partnership_opportunity:
\*   'monitoring', 'verification', 'measurement'                      0.3
\*   'api', 'data', 'registry'                                        0.3
\*   'global', 'international', 'expansion'                           0.2
\*   'enterprise', 'corporate', 'b2b'                                 0.2
calculate_partnership_opportunity(data) ==
    LET description == lower(GetStr(data, "description"))
        score == (IF ContainsAny(description,
                   { <<109, 111, 110, 105, 116, 111, 114, 105, 110, 103>>,
                     <<118, 101, 114, 105, 102, 105, 99, 97, 116, 105, 111, 110>>,
                     <<109, 101, 97, 115, 117, 114, 101, 109, 101, 110, 116>> })
                THEN 30 ELSE 0)
               + (IF ContainsAny(description,
                   { <<97, 112, 105>>,
                     <<100, 97, 116, 97>>,
                     <<114, 101, 103, 105, 115, 116, 114, 121>> })
                THEN 30 ELSE 0)
               + (IF ContainsAny(description,
                   { <<103, 108, 111, 98, 97, 108>>,
                     <<105, 110, 116, 101, 114, 110, 97, 116, 105, 111, 110, 97, 108>>,
                     <<101, 120, 112, 97, 110, 115, 105, 111, 110>> })
                THEN 20 ELSE 0)
               + (IF ContainsAny(description,
                   { <<101, 110, 116, 101, 114, 112, 114, 105, 115, 101>>,
                     <<99, 111, 114, 112, 111, 114, 97, 116, 101>>,
                     <<98, 50, 98>> })
                THEN 20 ELSE 0)
    IN  at_most_one(score)

\* ClimateVCTracker.classify_business_model: "marketplace" for 'marketplace' or
\* 'trading', "software-platform" for 'saas', 'platform' or 'software',
\* "services" for 'consulting' or 'advisory', "hardware" for 'hardware' or
\* 'device', else "other"
classify_business_model(description) ==
    LET desc_lower == lower(description) IN
    IF \/ Contains(desc_lower, <<109, 97, 114, 107, 101, 116, 112, 108, 97, 99, 101>>)
       \/ Contains(desc_lower, <<116, 114, 97, 100, 105, 110, 103>>)
    THEN <<109, 97, 114, 107, 101, 116, 112, 108, 97, 99, 101>>
    ELSE IF \/ Contains(desc_lower, <<115, 97, 97, 115>>)
            \/ Contains(desc_lower, <<112, 108, 97, 116, 102, 111, 114, 109>>)
            \/ Contains(desc_lower, <<115, 111, 102, 116, 119, 97, 114, 101>>)
    THEN <<115, 111, 102, 116, 119, 97, 114, 101, 45, 112, 108, 97, 116, 102, 111, 114, 109>>
    ELSE IF \/ Contains(desc_lower, <<99, 111, 110, 115, 117, 108, 116, 105, 110, 103>>)
            \/ Contains(desc_lower, <<97, 100, 118, 105, 115, 111, 114, 121>>)
    THEN <<115, 101, 114, 118, 105, 99, 101, 115>>
    ELSE IF \/ Contains(desc_lower, <<104, 97, 114, 100, 119, 97, 114, 101>>)
            \/ Contains(desc_lower, <<100, 101, 118, 105, 99, 101>>)
    THEN <<104, 97, 114, 100, 119, 97, 114, 101>>
    ELSE <<111, 116, 104, 101, 114>>

\* the stages determine_stage returns
Seed == <<115, 101, 101, 100>>      \* "seed"
Growth == <<103, 114, 111, 119, 116, 104>>   \* "growth"
Mature == <<109, 97, 116, 117, 114, 101>>   \* "mature"
Exit == <<101, 120, 105, 116>>      \* "exit"

\* ClimateVCTracker.determine_stage: by the funding type ('seed', 'pre-seed';
\* 'series a', 'series b'; 'series c', 'series d', 'series e'; 'acquisition'
\* anywhere in it), else by the amount
determine_stage(funding_type, amount) ==
    LET amount_value == tracker_parse_funding_amount(amount) IN
    IF lower(funding_type) \in { <<115, 101, 101, 100>>,
                               <<112, 114, 101, 45, 115, 101, 101, 100>> }
    THEN Seed
    ELSE IF lower(funding_type) \in { <<115, 101, 114, 105, 101, 115, 32, 97>>,
                                    <<115, 101, 114, 105, 101, 115, 32, 98>> }
    THEN Growth
    ELSE IF lower(funding_type) \in { <<115, 101, 114, 105, 101, 115, 32, 99>>,
                                    <<115, 101, 114, 105, 101, 115, 32, 100>>,
                                    <<115, 101, 114, 105, 101, 115, 32, 101>> }
    THEN Mature
    ELSE IF Contains(lower(funding_type), <<97, 99, 113, 117, 105, 115, 105, 116, 105, 111, 110>>)
    THEN Exit
    ELSE IF Truthy(amount_value) /\ RatioLt(amount_value, 5) THEN Seed
    ELSE IF Truthy(amount_value) /\ RatioLt(amount_value, 25) THEN Growth
    ELSE Mature

\* process_funding_event: the FundingEvent of a raw record.  Nothing is tested on
\* the way: the function returns an event for every raw record
process_funding_event(raw_data) ==
    [company |-> Get(raw_data, "company", Str(<<>>)),
     funding_type |-> Get(raw_data, "funding_type", Str(<<>>)),
     amount |-> Get(raw_data, "amount", None),
     valuation |-> Get(raw_data, "valuation", None),
     investors |-> Get(raw_data, "investors", <<>>),
     announcement_date |-> Get(raw_data, "announcement_date", Str(<<>>)),
     sector |-> Get(raw_data, "sector", Str(<<>>)),
     business_model |-> Str(classify_business_model(GetStr(raw_data, "description"))),
     stage |-> Str(determine_stage(GetStr(raw_data, "funding_type"), GetStr(raw_data, "amount"))),
     source_url |-> Get(raw_data, "source_url", Str(<<>>)),
     dovu_relevance |-> ClimateVCTracker_calculate_dovu_relevance(raw_data),
     competitive_threat |-> calculate_competitive_threat(raw_data),
     partnership_opportunity |-> calculate_partnership_opportunity(raw_data)]

\* track_crunchbase_carbon, the loop over the raw records: `if event:` holds for
\* every event, a dataclass instance being truthy
track_crunchbase_events(mock_events) ==
    [i \in 1..Len(mock_events) |-> process_funding_event(mock_events[i])]

\* descriptions of raw records: '', those of the mock data and texts made of
\* the keywords the scorers look for
\* 'Carbon credit tokenization platform for scope 3'
TokenizedCredits ==
    <<67, 97, 114, 98, 111, 110, 32, 99, 114, 101, 100, 105, 116, 32, 116, 111, 107, 101, 110, 105, 122, 97, 116, 105, 111, 110, 32, 112, 108, 97, 116, 102, 111, 114, 109, 32, 102, 111, 114, 32, 115, 99, 111, 112, 101, 32, 51>>
\* '', 'Supply chain carbon accounting platform',
\* 'Forest carbon monitoring and verification', 'Carbon credit platform',
\* 'Tokenization of carbon', 'Global corporate registry API for measurement'
RawDescriptions ==
    { <<>>, TokenizedCredits,
      <<83, 117, 112, 112, 108, 121, 32, 99, 104, 97, 105, 110, 32, 99, 97, 114, 98, 111, 110, 32, 97, 99, 99, 111, 117, 110, 116, 105, 110, 103, 32, 112, 108, 97, 116, 102, 111, 114, 109>>,
      <<70, 111, 114, 101, 115, 116, 32, 99, 97, 114, 98, 111, 110, 32, 109, 111, 110, 105, 116, 111, 114, 105, 110, 103, 32, 97, 110, 100, 32, 118, 101, 114, 105, 102, 105, 99, 97, 116, 105, 111, 110>>,
      <<67, 97, 114, 98, 111, 110, 32, 99, 114, 101, 100, 105, 116, 32, 112, 108, 97, 116, 102, 111, 114, 109>>,
      <<84, 111, 107, 101, 110, 105, 122, 97, 116, 105, 111, 110, 32, 111, 102, 32, 99, 97, 114, 98, 111, 110>>,
      <<71, 108, 111, 98, 97, 108, 32, 99, 111, 114, 112, 111, 114, 97, 116, 101, 32, 114, 101, 103, 105, 115, 116, 114, 121, 32, 65, 80, 73, 32, 102, 111, 114, 32, 109, 101, 97, 115, 117, 114, 101, 109, 101, 110, 116>> }

CarbonManagement == <<99, 97, 114, 98, 111, 110, 45, 109, 97, 110, 97, 103, 101, 109, 101, 110, 116>>   \* 'carbon-management'
NatureBased == <<110, 97, 116, 117, 114, 101, 45, 98, 97, 115, 101, 100, 45, 115, 111, 108, 117, 116, 105, 111, 110, 115>>   \* 'nature-based-solutions'
MockDate == <<50, 48, 50, 54, 45, 48, 50, 45, 49, 53>>   \* '2026-02-15'

\* a raw record as the sources deliver it: a description, a sector, a funding
\* type ('Series A', 'Round'), an amount ('$5M', '$20M', '$25M', '$50M', '$55M', '$0.5B') or
\* none, a date that parses, a date that does not ('soon', '') or none
RawRecords ==
    LET base == { [description |-> Str(d), sector |-> Str(s), funding_type |-> Str(f)] :
                     d \in RawDescriptions, s \in {CarbonManagement, NatureBased},
                     f \in { <<83, 101, 114, 105, 101, 115, 32, 65>>, <<82, 111, 117, 110, 100>> } }
        amounts == base \cup { r @@ [amount |-> Str(a)] : r \in base,
                                 a \in { <<36, 53, 77>>, <<36, 50, 48, 77>>, <<36, 50, 53, 77>>, <<36, 53, 48, 77>>,
                                        <<36, 53, 53, 77>>, <<36, 48, 46, 53, 66>> } }
    IN  amounts \cup { r @@ [announcement_date |-> Str(d)] :
                          r \in amounts, d \in {MockDate, <<115, 111, 111, 110>>, <<>>} }

\* the record that follows another in a batch of two: the second of the mock
\* data, with an amount of '$5M' or '$55M'
SecondRecords ==
    { [description |-> Str(<<70, 111, 114, 101, 115, 116, 32, 99, 97, 114, 98, 111, 110, 32, 109, 111, 110, 105, 116, 111, 114, 105, 110, 103, 32, 97, 110, 100, 32, 118, 101, 114, 105, 102, 105, 99, 97, 116, 105, 111, 110>>),
       sector |-> Str(NatureBased), funding_type |-> Str(<<>>), amount |-> Str(a),
       announcement_date |-> Str(MockDate)] :
          a \in { <<36, 53, 77>>, <<36, 53, 53, 77>> } }

\* most raw records of a batch
MaxRaw == 2

RawBatches ==
    {<<>>} \cup { <<r>> : r \in RawRecords }
           \cup (IF MaxRaw >= 2
                 THEN { <<r>> \o tail : r \in RawRecords, tail \in SeqsUpTo(SecondRecords, MaxRaw - 1) \ {<<>>} }
                 ELSE {})

\* process_funding_event(raw_data) on one record of the batch
process_funding_event_call ==
    /\ called.fn = "none"
    /\ \E i \in 1..Len(called.args.mock_events) :
          /\ called' = Call("process_funding_event", [raw_data |-> called.args.mock_events[i]])
          /\ outcome' = process_funding_event(called.args.mock_events[i])
    /\ UNCHANGED <<commitments, funding, expected_key, pc, req, alerts, resp, disk, writer>>

\* track_crunchbase_carbon() over the batch
track_crunchbase_carbon ==
    /\ called.fn = "none"
    /\ called' = [called EXCEPT !.fn = "track_crunchbase_carbon"]
    /\ outcome' = track_crunchbase_events(called.args.mock_events)
    /\ UNCHANGED <<commitments, funding, expected_key, pc, req, alerts, resp, disk, writer>>

InitTracker ==
    /\ called \in { Call("none", [mock_events |-> b]) : b \in RawBatches }
    /\ outcome = Unused
    /\ NoApp

NextTracker ==
    \/ process_funding_event_call
    \/ track_crunchbase_carbon

SpecTracker == InitTracker /\ [][NextTracker]_vars

-----------------------------------------------------------------------------
(* The relevance scorers of commitments *)
(* (create_real_data.py and scrapers/corporate-commitments.py)              *)

\* min(0.95, max(0.4, score)), in hundredths
clamp_relevance(score) ==
    LET m == IF score > 40 THEN score ELSE 40 IN IF m < 95 THEN m ELSE 95

\* create_real_data.calculate_dovu_relevance: base 0.5, then
\*   'supply chain', 'supplier', 'sourcing', 'value chain'            0.15
\*   'token', 'blockchain', 'digital', 'tracking'                     0.2
\*   'million', 'gigaton', 'billion'                                  0.1
\*   'registry', 'verification', 'standard', 'methodology'            0.1
calculate_dovu_relevance(company_data) ==
    LET text == lower(company_data)
        score == 50
               + (IF ContainsAny(text,
                   { <<115, 117, 112, 112, 108, 121, 32, 99, 104, 97, 105, 110>>,
                     <<115, 117, 112, 112, 108, 105, 101, 114>>,
                     <<115, 111, 117, 114, 99, 105, 110, 103>>,
                     <<118, 97, 108, 117, 101, 32, 99, 104, 97, 105, 110>> })
                THEN 15 ELSE 0)
               + (IF ContainsAny(text,
                   { <<116, 111, 107, 101, 110>>,
                     <<98, 108, 111, 99, 107, 99, 104, 97, 105, 110>>,
                     <<100, 105, 103, 105, 116, 97, 108>>,
                     <<116, 114, 97, 99, 107, 105, 110, 103>> })
                THEN 20 ELSE 0)
               + (IF ContainsAny(text,
                   { <<109, 105, 108, 108, 105, 111, 110>>,
                     <<103, 105, 103, 97, 116, 111, 110>>,
                     <<98, 105, 108, 108, 105, 111, 110>> })
                THEN 10 ELSE 0)
               + (IF ContainsAny(text,
                   { <<114, 101, 103, 105, 115, 116, 114, 121>>,
                     <<118, 101, 114, 105, 102, 105, 99, 97, 116, 105, 111, 110>>,
                     <<115, 116, 97, 110, 100, 97, 114, 100>>,
                     <<109, 101, 116, 104, 111, 100, 111, 108, 111, 103, 121>> })
                THEN 10 ELSE 0)
    IN  clamp_relevance(score)

\* type_scores.get(commitment_type, 0.1): "net-zero" 0.4, "carbon-negative" 0.5,
\* "scope-reductions" 0.2, "other" 0.1
type_scores(commitment_type) ==
    IF commitment_type = NetZero THEN 40
    ELSE IF commitment_type = <<99, 97, 114, 98, 111, 110, 45, 110, 101, 103, 97, 116, 105, 118, 101>> THEN 50
    ELSE IF commitment_type = <<115, 99, 111, 112, 101, 45, 114, 101, 100, 117, 99, 116, 105, 111, 110, 115>> THEN 20
    ELSE 10

\* `target_year and target_year <= limit` of an Optional[int]
YearBy(target_year, limit) ==
    target_year.t = "num" /\ target_year.n # 0 /\ target_year.n <= limit

\* CorporateCommitmentsScraper.calculate_relevance_score (company is not read).
\* re.search with re.IGNORECASE of an alternation of literals: one of them is in
\* the lower-cased content
\*   r'fortune 500|S&P 500|multinational|billion'                     0.3
\*   r'supply chain|value chain|scope 3'                              0.1
calculate_relevance_score(commitment_type, target_year, content) ==
    LET score == (IF ContainsAny(lower(content),
                   { <<102, 111, 114, 116, 117, 110, 101, 32, 53, 48, 48>>,
                     <<115, 38, 112, 32, 53, 48, 48>>,
                     <<109, 117, 108, 116, 105, 110, 97, 116, 105, 111, 110, 97, 108>>,
                     <<98, 105, 108, 108, 105, 111, 110>> })
                THEN 30 ELSE 0)
               + type_scores(commitment_type)
               + (IF YearBy(target_year, 2030) THEN 20
                  ELSE IF YearBy(target_year, 2040) THEN 10 ELSE 0)
               + (IF ContainsAny(lower(content),
                   { <<115, 117, 112, 112, 108, 121, 32, 99, 104, 97, 105, 110>>,
                     <<118, 97, 108, 117, 101, 32, 99, 104, 97, 105, 110>>,
                     <<115, 99, 111, 112, 101, 32, 51>> })
                THEN 10 ELSE 0)
    IN  at_most_one(score)

\* texts: '', 'Acme Corp pledged to cut emissions',
\* 'Acme Corp, a Fortune 500 company, announced a target',
\* 'A multinational with a billion tonnes of Scope 3 in its supply chain',
\* 'Supplier tracking on a blockchain registry for a million tonnes'
Contents ==
    { <<>>,
      <<65, 99, 109, 101, 32, 67, 111, 114, 112, 32, 112, 108, 101, 100, 103, 101, 100, 32, 116, 111, 32, 99, 117, 116, 32, 101, 109, 105, 115, 115, 105, 111, 110, 115>>,
      <<65, 99, 109, 101, 32, 67, 111, 114, 112, 44, 32, 97, 32, 70, 111, 114, 116, 117, 110, 101, 32, 53, 48, 48, 32, 99, 111, 109, 112, 97, 110, 121, 44, 32, 97, 110, 110, 111, 117, 110, 99, 101, 100, 32, 97, 32, 116, 97, 114, 103, 101, 116>>,
      <<65, 32, 109, 117, 108, 116, 105, 110, 97, 116, 105, 111, 110, 97, 108, 32, 119, 105, 116, 104, 32, 97, 32, 98, 105, 108, 108, 105, 111, 110, 32, 116, 111, 110, 110, 101, 115, 32, 111, 102, 32, 83, 99, 111, 112, 101, 32, 51, 32, 105, 110, 32, 105, 116, 115, 32, 115, 117, 112, 112, 108, 121, 32, 99, 104, 97, 105, 110>>,
      <<83, 117, 112, 112, 108, 105, 101, 114, 32, 116, 114, 97, 99, 107, 105, 110, 103, 32, 111, 110, 32, 97, 32, 98, 108, 111, 99, 107, 99, 104, 97, 105, 110, 32, 114, 101, 103, 105, 115, 116, 114, 121, 32, 102, 111, 114, 32, 97, 32, 109, 105, 108, 108, 105, 111, 110, 32, 116, 111, 110, 110, 101, 115>> }

\* the four types of the table and 'offsets', a type the table does not hold
CommitmentTypes ==
    { NetZero, Other, <<99, 97, 114, 98, 111, 110, 45, 110, 101, 103, 97, 116, 105, 118, 101>>, <<115, 99, 111, 112, 101, 45, 114, 101, 100, 117, 99, 116, 105, 111, 110, 115>>,
      <<111, 102, 102, 115, 101, 116, 115>> }

\* no target year, or one on either side of the two limits
TargetYears == { None, Num(2025), Num(2030), Num(2031), Num(2040), Num(2050) }

\* calculate_dovu_relevance(company_data) of create_real_data.py on the text
calculate_dovu_relevance_call ==
    /\ called.fn = "none"
    /\ called' = [called EXCEPT !.fn = "create_real_data.calculate_dovu_relevance"]
    /\ outcome' = calculate_dovu_relevance(called.args.content)
    /\ UNCHANGED <<commitments, funding, expected_key, pc, req, alerts, resp, disk, writer>>

\* calculate_relevance_score(company, commitment_type, target_year, content)
calculate_relevance_score_call ==
    /\ called.fn = "none"
    /\ called' = [called EXCEPT !.fn = "calculate_relevance_score"]
    /\ outcome' = calculate_relevance_score(called.args.commitment_type,
                                            called.args.target_year, called.args.content)
    /\ UNCHANGED <<commitments, funding, expected_key, pc, req, alerts, resp, disk, writer>>

InitRelevance ==
    /\ called \in { Call("none", [commitment_type |-> ty, target_year |-> y, content |-> c]) :
                      ty \in CommitmentTypes, y \in TargetYears, c \in Contents }
    /\ outcome = Unused
    /\ NoApp

NextRelevance ==
    \/ calculate_dovu_relevance_call
    \/ calculate_relevance_score_call

SpecRelevance == InitRelevance /\ [][NextRelevance]_vars

-----------------------------------------------------------------------------
(* The dashboard summary (get_dashboard_summary, /api/stats and /) *)

\* score >= threshold where the code has score > threshold
reaches(score, threshold) == score >= threshold

\* score > 0.6, in hundredths
exceeds(score, threshold) == score > threshold

\* rec[key] > 0.6: raises on a missing key (KeyError) or a value that is no
\* number (TypeError)
ItemGt(rec, key) ==
    IF key \notin DOMAIN rec \/ ~IsNumber(rec[key]) THEN Raised
    ELSE Ok(exceeds(rec[key].n, HighScore))

\* rec.get(key, 0) > 0.6: raises on a value that is no number (TypeError)
GetGt(rec, key) ==
    IF key \notin DOMAIN rec THEN Ok(exceeds(0, HighScore))
    ELSE IF ~IsNumber(rec[key]) THEN Raised
    ELSE Ok(exceeds(rec[key].n, HighScore))

\* isinstance(rec.get(key), (int, float)) and rec[key] > 0.6
GuardedGt(rec, key) ==
    key \in DOMAIN rec /\ IsNumber(rec[key]) /\ exceeds(rec[key].n, HighScore)

\* strptime(rec['announcement_date'], '%Y-%m-%d').date() >= day
DateGe(rec, day) == strptime(rec).ok /\ strptime(rec).ord >= day

RECURSIVE Gcd(_, _)
Gcd(a, b) == IF b = 0 THEN a ELSE Gcd(b, a % b)

\* a + b of two floats, exactly, in lowest terms
AddRatio(a, b) ==
    LET n == a.n * b.d + b.n * a.d
        d == a.d * b.d
        g == Gcd(n, d)
    IN  Ratio(n \div g, d \div g)

\* the decimal digits of a natural number
RECURSIVE IntStr(_)
IntStr(n) == IF n < 10 THEN <<48 + n>> ELSE IntStr(n \div 10) \o <<48 + (n % 10)>>

\* the number of tenths nearest to v, a tie going to the even one
Tenths(v) ==
    LET q == (v.n * 10) \div v.d
        r == (v.n * 10) % v.d
    IN  IF 2 * r > v.d THEN q + 1
        ELSE IF 2 * r = v.d THEN q + (q % 2)
        ELSE q

\* f"${total_funding_value:.1f}M"
format_funding_value(v) ==
    <<36>> \o IntStr(Tenths(v) \div 10) \o <<46>> \o <<48 + (Tenths(v) % 10)>> \o <<LetterM>>

\* f.get('amount', '0') handed to the open app's parser, `or 0`: None is falsy
\* and parses as 0.0
app_amount_of(f) ==
    IF "amount" \notin DOMAIN f THEN app_parse_funding_amount(<<48>>)
    ELSE IF f.amount.t = "str" THEN app_parse_funding_amount(f.amount.s)
    ELSE Ratio(0, 1)

\* the secure app's parser on f.get('amount', '0'): 0.0 for what is no str
secure_amount_of(f) ==
    IF "amount" \notin DOMAIN f THEN secure_parse_funding_amount(<<48>>)
    ELSE IF f.amount.t = "str" THEN secure_parse_funding_amount(f.amount.s)
    ELSE Ratio(0, 1)

\* sum([parse_funding_amount(f.get('amount', '0')) or 0 for f in funding])
RECURSIVE app_total_funding_value(_)
app_total_funding_value(list) ==
    IF list = <<>> THEN Ratio(0, 1)
    ELSE AddRatio(app_total_funding_value(SubSeq(list, 1, Len(list) - 1)),
                  app_amount_of(list[Len(list)]))

\* the secure app's loop: total_funding_value += amount when amount > 0
RECURSIVE secure_total_funding_value(_)
secure_total_funding_value(list) ==
    IF list = <<>> THEN Ratio(0, 1)
    ELSE LET amount == secure_amount_of(list[Len(list)])
             before == secure_total_funding_value(SubSeq(list, 1, Len(list) - 1))
         IN  IF amount.n > 0 THEN AddRatio(before, amount) ELSE before

\* date.fromordinal(ord): the year, the month and the day
RECURSIVE YearFrom(_, _)
YearFrom(ord, y) == IF ord > DaysBeforeYear(y + 1) THEN YearFrom(ord, y + 1) ELSE y
RECURSIVE MonthFrom(_, _, _)
MonthFrom(days, y, m) ==
    IF days > DaysBeforeMonth(y, m) + DaysInMonth(y, m) THEN MonthFrom(days, y, m + 1) ELSE m
ord2ymd(ord) ==
    LET y == YearFrom(ord, (ord \div 366) + 1)
        days == ord - DaysBeforeYear(y)
        m == MonthFrom(days, y, 1)
    IN  [y |-> y, m |-> m, d |-> days - DaysBeforeMonth(y, m)]

\* datetime.now().strftime('%Y-%m-%d %H:%M UTC')
strftime_minute(now) ==
    LET date == ord2ymd(now.ord) IN
    strftime(date.y, date.m, date.d) \o <<32>> \o Pad2(now.sec \div 3600) \o <<58>>
        \o Pad2((now.sec % 3600) \div 60) \o <<32, 85, 84, 67>>

\* the dict get_dashboard_summary returns, of the lists it has built
Summary(cs, recent_cs, high_cs, fs, recent_fs, total_value, threats, opps, now) ==
    [total_commitments |-> Len(cs),
     recent_commitments |-> Len(recent_cs),
     high_value_commitments |-> Len(high_cs),
     total_funding_events |-> Len(fs),
     recent_funding_events |-> Len(recent_fs),
     total_funding_value |-> format_funding_value(total_value),
     competitive_threats |-> Len(threats),
     partnership_opportunities |-> Len(opps),
     last_updated |-> strftime_minute(now)]

\* app.DashboardData.get_dashboard_summary: the comprehensions raise on the first
\* record whose date or score raises
app_get_dashboard_summary(loaded_commitments, loaded_funding, now) ==
    LET six_months_ago == now.ord - OpenMaxDays
        week_ago == now.ord - AlertDays
    IN
    IF \E i \in 1..Len(loaded_commitments) : ~strptime(loaded_commitments[i]).ok THEN Raised
    ELSE IF \E i \in 1..Len(loaded_funding) : ~strptime(loaded_funding[i]).ok THEN Raised
    ELSE
    LET cs == SelectSeq(loaded_commitments, LAMBDA c : DateGe(c, six_months_ago))
        fs == SelectSeq(loaded_funding, LAMBDA f : DateGe(f, six_months_ago))
    IN
    IF \E i \in 1..Len(cs) : ~ItemGt(cs[i], "relevance_score").ok THEN Raised
    ELSE IF \E i \in 1..Len(fs) : ~GetGt(fs[i], "competitive_threat").ok THEN Raised
    ELSE IF \E i \in 1..Len(fs) : ~GetGt(fs[i], "partnership_opportunity").ok THEN Raised
    ELSE Ok(Summary(cs,
                    SelectSeq(cs, LAMBDA c : DateGe(c, week_ago)),
                    SelectSeq(cs, LAMBDA c : ItemGt(c, "relevance_score").val),
                    fs,
                    SelectSeq(fs, LAMBDA f : DateGe(f, week_ago)),
                    app_total_funding_value(fs),
                    SelectSeq(fs, LAMBDA f : GetGt(f, "competitive_threat").val),
                    SelectSeq(fs, LAMBDA f : GetGt(f, "partnership_opportunity").val),
                    now))

\* secure_app.DashboardData.get_dashboard_summary: the loaded lists are counted
\* whole, a record whose date raises is not recent, a score that is no number is
\* not over the threshold; nothing raises on a list of dicts
secure_get_dashboard_summary(loaded_commitments, loaded_funding, now) ==
    LET week_ago == now.ord - AlertDays IN
    Summary(loaded_commitments,
            SelectSeq(loaded_commitments, LAMBDA c : DateGe(c, week_ago)),
            SelectSeq(loaded_commitments, LAMBDA c : GuardedGt(c, "relevance_score")),
            loaded_funding,
            SelectSeq(loaded_funding, LAMBDA f : DateGe(f, week_ago)),
            secure_total_funding_value(loaded_funding),
            SelectSeq(loaded_funding, LAMBDA f : GuardedGt(f, "competitive_threat")),
            SelectSeq(loaded_funding, LAMBDA f : GuardedGt(f, "partnership_opportunity")),
            now)

\* the response of /api/stats and the summary handed to the page template
StatsResponse(status, summary) == [status |-> status, summary |-> summary]

\* the open app's handlers have no try: a summary that raises is a 500
app_stats_response(summary) ==
    IF summary.ok THEN StatsResponse(200, summary.val) ELSE StatsResponse(500, Unused)

\* GET /api/stats of the open app
app_api_stats ==
    /\ pc = "idle"
    /\ \E now \in Nows :
        /\ req' = Request("stats", "app", NoArgs, <<>>, now)
        /\ resp' = app_stats_response(app_get_dashboard_summary(commitments, funding, now))
    /\ pc' = "done"
    /\ UNCHANGED <<commitments, funding, expected_key, alerts, disk, writer, called, outcome>>

\* GET / of the open app
app_dashboard ==
    /\ pc = "idle"
    /\ \E now \in Nows :
        /\ req' = Request("dashboard", "app", NoArgs, <<>>, now)
        /\ resp' = app_stats_response(app_get_dashboard_summary(commitments, funding, now))
    /\ pc' = "done"
    /\ UNCHANGED <<commitments, funding, expected_key, alerts, disk, writer, called, outcome>>

\* GET /api/stats of the secure app: public, no key is asked for
secure_api_stats ==
    /\ pc = "idle"
    /\ \E now \in Nows :
        /\ req' = Request("stats", "secure", NoArgs, <<>>, now)
        /\ resp' = StatsResponse(200, secure_get_dashboard_summary(secure_load(commitments),
                                                                   secure_load(funding), now))
    /\ pc' = "done"
    /\ UNCHANGED <<commitments, funding, expected_key, alerts, disk, writer, called, outcome>>

\* GET / of the secure app
secure_dashboard ==
    /\ pc = "idle"
    /\ \E now \in Nows :
        /\ req' = Request("dashboard", "secure", NoArgs, <<>>, now)
        /\ resp' = StatsResponse(200, secure_get_dashboard_summary(secure_load(commitments),
                                                                   secure_load(funding), now))
    /\ pc' = "done"
    /\ UNCHANGED <<commitments, funding, expected_key, alerts, disk, writer, called, outcome>>

\* commitments: counted, on the edge of the 180 days and of the score, under
\* the score, 400 days old and high, with a date that does not parse, with a
\* score that is no number
StatsCommitmentKinds ==
    { Commitment(65, Str(Today), NetZero, Num(85)),
      Commitment(66, Str(Ago180), NetZero, Num(60)),
      Commitment(67, Str(Ago7), Other, Num(50)),
      Commitment(68, Str(Ago400), NetZero, Num(90)),
      Commitment(69, Str(<<>>), NetZero, Num(90)),
      Commitment(70, Str(Today), NetZero, Str(High)) }

\* funding events: a threat with an amount ('$5M'), a threat and partnership 400
\* days old ('$1.5B'), one on the edge of the 180 days and of a score ('$500K'),
\* one without scores and amount
StatsFundingKinds ==
    { [FundingEvent(71, Str(Today), ClimateTech, Num(85), Num(70), Num(60))
          EXCEPT !.amount = Str(<<36, 53, 77>>)],
      [FundingEvent(72, Str(Ago400), ClimateTech, Num(50), Num(95), Num(90))
          EXCEPT !.amount = Str(<<36, 49, 46, 53, 66>>)],
      [FundingEvent(73, Str(Ago180), Other, Num(50), Num(60), Num(61))
          EXCEPT !.amount = Str(<<36, 53, 48, 48, 75>>)],
      [x \in {"company", "announcement_date", "sector"} |->
          FundingEvent(74, Str(Yesterday), Other, Num(0), Num(0), Num(0))[x]] }

InitStats ==
    /\ commitments \in SeqsUpTo(StatsCommitmentKinds, MaxSnap)
    /\ funding \in SeqsUpTo(StatsFundingKinds, MaxSnap)
    /\ expected_key = ApiKey
    /\ Idle
    /\ AppAlone

NextStats ==
    \/ app_api_stats
    \/ app_dashboard
    \/ secure_api_stats
    \/ secure_dashboard
    \/ Return

SpecStats == InitStats /\ [][NextStats]_vars

-----------------------------------------------------------------------------
(* The three guarded endpoints of the secure app, with and without a key *)
(* configured                                                              *)

\* CARBON_DASHBOARD_API_KEY is unset or set; the data files are empty or hold
\* one commitment and one funding event that both alert
InitSecure ==
    /\ \E snap \in { Snapshot(<<>>, <<>>),
                     Snapshot(<<Commitment(65, Str(Today), NetZero, Num(85))>>,
                              <<FundingEvent(71, Str(Today), ClimateTech,
                                             Num(85), Num(70), Num(60))>>) } :
        /\ commitments = snap.commitments
        /\ funding = snap.funding
    /\ expected_key \in {<<>>, ApiKey}
    /\ Idle
    /\ AppAlone

NextSecure ==
    \/ secure_api_commitments
    \/ secure_api_funding
    \/ secure_api_alerts
    \/ Return

SpecSecure == InitSecure /\ [][NextSecure]_vars

-----------------------------------------------------------------------------
(* Alerts and summary over the same snapshots *)

NextDerive ==
    \/ app_api_alerts
    \/ secure_api_alerts
    \/ app_api_stats
    \/ secure_api_stats
    \/ Return

SpecDerive == InitStats /\ [][NextDerive]_vars

-----------------------------------------------------------------------------
(* The files the collection loop leaves in the data directory *)

\* calendar days the loop is followed over, the first one included
MaxDay == 2

\* datetime.now().strftime('%Y%m%d'): the files of one kind,
\* f"data/commitments_{stamp}.json" or f"data/funding_{stamp}.json", are told
\* apart by the stamp
strftime_stamp(ord) ==
    LET date == ord2ymd(ord) IN IntStr(date.y * 10000 + date.m * 100 + date.d)

\* with open(filename, 'w') as f: json.dump(data, f): the file of that name
\* holds data, whatever it held before; the other files are left alone
save_to(dir, filename, data) ==
    [f \in DOMAIN dir \cup {filename} |-> IF f = filename THEN data ELSE dir[f]]

\* save_commitments, save_funding_events are called for a list that is not empty
save_if_any(dir, filename, data) ==
    IF data = <<>> THEN dir ELSE save_to(dir, filename, data)

\* the loop has finished `batch` cycles, the last one on day `day`
Cycle(batch, day) == [at |-> "sleeping", batch |-> batch, day |-> day]

\* one cycle of data_collection_loop: collect_data saves the commitments it
\* scraped, then the funding events, each under the name of the day its save
\* runs on; the hour of sleep before the cycle may end the day
collect_data ==
    /\ writer.batch < MaxBatch + 1
    /\ \E found \in SUBSET {"commitments", "funding"},
          first \in writer.day..(writer.day + 1), second \in writer.day..(writer.day + 1) :
        /\ first <= second
        /\ second < ymd2ord(2026, 3, 10) + MaxDay
        /\ LET batch == Batch(writer.batch + 1)
               scraped == IF "commitments" \in found THEN batch.commitments ELSE <<>>
               events == IF "funding" \in found THEN batch.funding ELSE <<>>
           IN  disk' = [commitments |-> save_if_any(disk.commitments, strftime_stamp(first), scraped),
                        funding |-> save_if_any(disk.funding, strftime_stamp(second), events)]
        /\ writer' = Cycle(writer.batch + 1, second)
    /\ UNCHANGED <<commitments, funding, expected_key, pc, req, alerts, resp,
                   called, outcome>>

\* DashboardOrchestrator.__init__ has made the data directory, nothing is in it
InitStore ==
    /\ disk = [commitments |-> <<>>, funding |-> <<>>]
    /\ writer = Cycle(0, ymd2ord(2026, 3, 10))
    /\ commitments = <<>>
    /\ funding = <<>>
    /\ expected_key = <<>>
    /\ Idle
    /\ called = Unused
    /\ outcome = Unused

NextStore == collect_data

SpecStore == InitStore /\ [][NextStore]_vars

-----------------------------------------------------------------------------
(* Every query of both apps, one after another, over snapshots of one record *)
(* of a kind at most                                                         *)

InitQueries ==
    /\ commitments \in SeqsUpTo(StatsCommitmentKinds, 1)
    /\ funding \in SeqsUpTo(StatsFundingKinds, 1)
    /\ expected_key = ApiKey
    /\ Idle
    /\ AppAlone

NextQueries ==
    \/ app_api_commitments
    \/ app_api_funding
    \/ secure_api_commitments
    \/ secure_api_funding
    \/ app_api_alerts
    \/ secure_api_alerts
    \/ app_api_stats
    \/ app_dashboard
    \/ secure_api_stats
    \/ secure_dashboard
    \/ Return

SpecQueries == InitQueries /\ [][NextQueries]_vars

-----------------------------------------------------------------------------
(* The alerts endpoint over records that share their dates *)

\* two alerting commitments of today and one of yesterday
SameDayCommitments ==
    { Commitment(65, Str(Today), NetZero, Num(85)),
      Commitment(66, Str(Today), NetZero, Num(90)),
      Commitment(67, Str(strftime(2026, 3, 9)), NetZero, Num(70)) }

\* two funding events of today over both thresholds, one of yesterday over
\* the partnership threshold
SameDayFunding ==
    { FundingEvent(71, Str(Today), ClimateTech, Num(85), Num(70), Num(80)),
      FundingEvent(72, Str(Today), ClimateTech, Num(50), Num(95), Num(90)),
      FundingEvent(73, Str(strftime(2026, 3, 9)), Other, Num(50), Num(30), Num(80)) }

InitOrder ==
    /\ \/ /\ commitments \in SeqsUpTo(SameDayCommitments, MaxSnap)
          /\ funding \in SeqsUpTo(SameDayFunding, MaxSnap)
       \/ \E snap \in BulkAlertSnapshots :
            /\ commitments = snap.commitments
            /\ funding = snap.funding
    /\ expected_key = ApiKey
    /\ Idle
    /\ AppAlone

SpecOrder == InitOrder /\ [][NextAlerts]_vars

-----------------------------------------------------------------------------
(* Vocabulary of the properties *)

\* a filter request has been served
Filtering == pc = "done" /\ req.endpoint \in {"commitments", "funding"}

\* an alerts request has been served
Alerting == pc = "done" /\ req.endpoint = "alerts"

\* the request went past authentication (the open app has none)
Admitted == req.app = "app" \/ require_api_key(req.api_key, expected_key) = 0

\* the list the served endpoint filters
Source == IF req.endpoint = "commitments" THEN commitments ELSE funding

\* the numeric parameters the served endpoint parses
NumericRead ==
    IF req.app = "app" /\ req.endpoint = "commitments"
    THEN {"min_relevance", "days"}
    ELSE {"min_relevance", "days", "min_threat", "min_partnership"}

\* the threshold parameters the served endpoint parses
ThresholdsRead == NumericRead \ {"days"}

\* the argument reads as a number of the parameter's type
Parses(name, a) == IF name = "days" THEN int_arg(a, 0).ok ELSE float_arg(a, 0).ok

AllParse == \A name \in NumericRead : Parses(name, req.args[name])

\* the categorical parameter of the served endpoint: its argument, its effective value
CategoryName == IF req.endpoint = "commitments" THEN "type" ELSE "sector"
CategoryUsed ==
    IF req.endpoint = "commitments" THEN resp.filters.commitment_type
    ELSE resp.filters.sector

\* the text holds a character outside [A-Za-z0-9_-]
Disallowed(a) == a.k = "str" /\ \E i \in 1..Len(a.s) : ~NameChar(a.s[i])

\* what the served endpoint answers to the query string args over list
Answer(list, args) ==
    IF req.app = "app"
    THEN IF req.endpoint = "commitments"
         THEN app_commitments_response(list, args, req.now)
         ELSE app_funding_response(list, args, req.now)
    ELSE IF req.endpoint = "commitments"
         THEN secure_commitments_response(list, args, req.api_key, expected_key, req.now)
         ELSE secure_funding_response(list, args, req.api_key, expected_key, req.now)

\* the record's date parses and is not before now - days_back
InWindow(rec, days_back, now) ==
    strptime(rec).ok /\ MidnightGe(strptime(rec).ord, MinusDays(now, days_back))

\* the record has a numeric score under key that reaches a positive threshold
Reaches(rec, key, threshold) ==
    threshold > 0 => (key \in DOMAIN rec /\ IsNumber(rec[key]) /\ rec[key].n >= threshold)

\* the record's text under key equals a non-empty categorical filter
Matches(rec, key, text) ==
    text # <<>> => (key \in DOMAIN rec /\ rec[key] = Str(text))

\* the record passes every filter of the served endpoint with parameters p
PassesAll(rec, p) ==
    /\ InWindow(rec, p.days_back, req.now)
    /\ IF req.endpoint = "commitments"
       THEN /\ Reaches(rec, "relevance_score", p.min_relevance)
            /\ Matches(rec, "commitment_type", p.commitment_type)
       ELSE /\ Reaches(rec, "dovu_relevance", p.min_relevance)
            /\ Reaches(rec, "competitive_threat", p.min_threat)
            /\ Reaches(rec, "partnership_opportunity", p.min_partnership)
            /\ Matches(rec, "sector", p.sector)

\* the records of the source that pass every filter, in source order
Passing(p) == SelectSeq(Source, LAMBDA rec : PassesAll(rec, p))

\* how many entries of the list are x
Copies(list, x) == Cardinality({i \in 1..Len(list) : list[i] = x})

-----------------------------------------------------------------------------
(* Properties of the filter endpoints (specification Spec) *)

\* C1. For every integer `days`, the effective days_back of the commitments
\* and funding filters is max(1, min(180, days)), in every app variant.
\* Stated for the requests that are answered 200 and whose numeric
\* parameters all parse.
C1_DaysBackWithin180 ==
    (Filtering /\ resp.status = 200 /\ AllParse /\ req.args.days.k = "num") =>
        LET d == req.args.days.v
        IN  resp.filters.days_back = IF d > 180 THEN 180 ELSE IF d < 1 THEN 1 ELSE d

\* C2. A snapshot holding a record whose announcement_date is missing or does
\* not parse is still filtered successfully: the record is absent from the
\* result, which is the answer to the same request over the snapshot without
\* such records.
C2_BadDateRecordIsSkipped ==
    (Filtering /\ Admitted /\ \E i \in 1..Len(Source) : ~strptime(Source[i]).ok) =>
        LET clean == Answer(SelectSeq(Source, LAMBDA rec : strptime(rec).ok), req.args)
        IN  /\ resp.status = clean.status
            /\ resp.items = clean.items
            /\ resp.total = clean.total
            /\ \A i \in 1..Len(resp.items) : strptime(resp.items[i]).ok

\* C3. An invalid query parameter never makes a filter request be rejected:
\* no request is answered 400, and a disallowed categorical value is reset to
\* the empty filter.
C3_InvalidParameterNeverRejected ==
    (Filtering /\ Admitted) =>
        /\ resp.status # 400
        /\ (resp.status = 200 /\ Disallowed(req.args[CategoryName])) =>
               CategoryUsed = <<>>

\* C4. A commitment_type or sector holding a character outside [A-Za-z0-9_-]
\* is treated as no filter: the answer is the answer to the same request
\* without that parameter.
C4_DisallowedCategoryIsNoFilter ==
    (Filtering /\ Admitted /\ Disallowed(req.args[CategoryName])) =>
        LET bare == Answer(Source, [req.args EXCEPT ![CategoryName] = NoText])
        IN  /\ resp.status = bare.status
            /\ resp.items = bare.items
            /\ resp.total = bare.total

\* C5. A filter answer holds at most 100 records, the first min(N, 100) of the
\* N records that pass all filters, and reports total = N.
C5_AtMost100Returned ==
    (Filtering /\ resp.status = 200) =>
        LET pass == Passing(resp.filters)
        IN  /\ resp.total = Len(pass)
            /\ resp.items = SubSeq(pass, 1, IF Len(pass) < 100 THEN Len(pass) ELSE 100)

\* C6. The filters keep exactly the in-window records whose scores reach every
\* threshold that is > 0 (a score equal to the threshold is kept); a threshold
\* of 0 removes nothing, also from records that lack the score or hold no
\* number in it.  Stated for snapshots whose dates all parse and requests
\* whose numeric parameters all parse.
C6_ThresholdsKeepExactly ==
    (/\ Filtering /\ Admitted /\ AllParse
     /\ \A i \in 1..Len(Source) : strptime(Source[i]).ok) =>
        /\ resp.status = 200
        /\ resp.total = Len(Passing(resp.filters))
        /\ Len(resp.items) <= resp.total
        /\ resp.items = SubSeq(Passing(resp.filters), 1, Len(resp.items))

\* the value the claim gives a threshold argument: 0 below 0, 1 above 1, else itself
Unit(v) == IF v < 0 THEN 0 ELSE IF v > 100 THEN 100 ELSE v

\* C7 as amended. When every numeric parameter of the request parses, each
\* effective threshold lies in [0,1]: an input below 0 becomes 0, one above 1
\* becomes 1, one in [0,1] is used unchanged (an absent one is 0).
C7_ThresholdsClamped ==
    (Filtering /\ Admitted /\ AllParse) =>
        /\ resp.status \in {200, 500}
        /\ resp.status = 200 =>
            \A name \in ThresholdsRead :
                /\ resp.filters[name] \in 0..100
                /\ req.args[name].k = "num" => resp.filters[name] = Unit(req.args[name].v)
                /\ req.args[name].k = "absent" => resp.filters[name] = 0

\* C7, witness: a funding request answered with one threshold raised to 0,
\* one lowered to 1 and one kept
C7_Witness ==
    /\ Filtering /\ req.endpoint = "funding" /\ resp.status = 200
    /\ req.args.min_relevance = NumArg(-50) /\ resp.filters.min_relevance = 0
    /\ req.args.min_threat = NumArg(150) /\ resp.filters.min_threat = 100
    /\ req.args.min_partnership = NumArg(60) /\ resp.filters.min_partnership = 60

\* C7 as claimed. Every numeric threshold input is clamped into [0,1] and an
\* input in [0,1] is used unchanged, whatever the other parameters are.
C7_EveryNumericInputClamped ==
    (Filtering /\ Admitted) =>
        \A name \in ThresholdsRead :
            req.args[name].k = "num" =>
                resp.status # 400 /\
                (resp.status = 200 => resp.filters[name] = Unit(req.args[name].v))

-----------------------------------------------------------------------------
(* Properties of the alerts endpoint (specification SpecAlerts) *)

\* the commitment is dated within the 7 days before now and scores above 0.6
Qualifies(c, now) ==
    /\ strptime(c).ok
    /\ MidnightGe(strptime(c).ord, MinusDays(now, 7))
    /\ "relevance_score" \in DOMAIN c
    /\ IsNumber(c.relevance_score)
    /\ c.relevance_score.n > 60

\* the derived alerts of a type and priority that carry the record's company
AlertsOf(rec, type, priority) ==
    Cardinality({j \in 1..Len(alerts) :
                    /\ alerts[j].type = type
                    /\ alerts[j].priority = priority
                    /\ alerts[j].title = rec.company})

\* the score under key is a number above 0.6
Over(f, key) == key \in DOMAIN f /\ IsNumber(f[key]) /\ f[key].n > 60

\* C8. Alert derivation emits a commitment alert (priority high) for a
\* commitment exactly when its relevance_score is > 0.6 and its
\* announcement_date is within the last 7 days; each such commitment yields
\* one alert, dated with the commitment's announcement_date.
C8_CommitmentAlertIffRecentAndHigh ==
    (Alerting /\ Admitted) =>
        \A i \in 1..Len(commitments) :
            LET c == commitments[i] IN
            /\ AlertsOf(c, "commitment", "high") =
                   IF Qualifies(c, req.now)
                   THEN Copies(commitments, c)
                   ELSE 0
            /\ \A j \in 1..Len(alerts) :
                   (alerts[j].type = "commitment" /\ alerts[j].title = c.company) =>
                       alerts[j].date = c.announcement_date

\* C9. Every funding event with competitive_threat > 0.6 yields a threat
\* alert (urgent) and every one with partnership_opportunity > 0.6 a
\* partnership alert (medium), whatever its announcement_date; a commitment
\* dated more than 7 days ago yields no commitment alert.
C9_FundingAlertsWhateverTheDate ==
    (Alerting /\ Admitted) =>
        /\ \A i \in 1..Len(funding) :
               LET f == funding[i] IN
               /\ Over(f, "competitive_threat") =>
                      AlertsOf(f, "threat", "urgent") = Copies(funding, f)
               /\ Over(f, "partnership_opportunity") =>
                      AlertsOf(f, "partnership", "medium") = Copies(funding, f)
        /\ \A i \in 1..Len(commitments) :
               LET c == commitments[i] IN
               (strptime(c).ok /\ ~MidnightGe(strptime(c).ord, MinusDays(req.now, 7))) =>
                   AlertsOf(c, "commitment", "high") = 0

\* the day an alert is dated, when its date reads as one
DayOf(a) == IF a.date.t = "str" THEN strptime_str(a.date.s) ELSE NoDate

\* C10. The alert response is ordered by date, newest first: of two alerts
\* whose dates read as days, the earlier in the response is chronologically
\* not the earlier day.
C10_AlertsNewestFirst ==
    (Alerting /\ resp.status = 200) =>
        \A i \in 1..Len(resp.items) : \A j \in (i + 1)..Len(resp.items) :
            (DayOf(resp.items[i]).ok /\ DayOf(resp.items[j]).ok) =>
                DayOf(resp.items[i]).ord >= DayOf(resp.items[j]).ord

\* C11. An alerts response holds at most 20 alerts, the first 20 of the list
\* sorted by date, newest first, and its total is the number of alerts derived
\* before the cut: the qualifying commitments, the funding events over the
\* threat threshold and those over the partnership threshold, an event over
\* both counting twice; so total >= returned and returned = min(total, 20).
C11_AtMost20AlertsOfTotal ==
    (Alerting /\ resp.status = 200) =>
        LET returned == Len(resp.items)
            derived ==
                Cardinality({i \in 1..Len(commitments) : Qualifies(commitments[i], req.now)})
                + Cardinality({i \in 1..Len(funding) : Over(funding[i], "competitive_threat")})
                + Cardinality({i \in 1..Len(funding) :
                                  Over(funding[i], "partnership_opportunity")})
        IN  /\ returned <= 20
            /\ resp.total = derived
            /\ resp.total = Len(alerts)
            /\ resp.total >= returned
            /\ returned = IF resp.total < 20 THEN resp.total ELSE 20
            /\ resp.items = SubSeq(alerts, 1, returned)
            /\ \A i \in 1..Len(alerts) : \A j \in (i + 1)..Len(alerts) :
                   (alerts[i].date.t = "str" /\ alerts[j].date.t = "str") =>
                       ~StrLt(alerts[i].date.s, alerts[j].date.s)

\* C11, witness: more than 20 alerts were derived, one funding event stands
\* for two of them, and the response holds 20
C11_Witness ==
    /\ Alerting /\ resp.status = 200
    /\ resp.total > 20
    /\ Len(resp.items) = 20
    /\ \E i \in 1..Len(funding) :
           Over(funding[i], "competitive_threat") /\ Over(funding[i], "partnership_opportunity")

-----------------------------------------------------------------------------
(* Properties of the collection loop beside the app (specification SpecRefresh) *)

\* C12. While the collection loop writes a new batch, every request sees a
\* complete snapshot of one batch: no list that is empty because its file was
\* read while being written, and in an alerts request no commitments of one
\* batch with funding events of another.
C12_RequestSeesOneWholeBatch ==
    (Alerting /\ disk # Unused) =>
        \E b \in 0..MaxBatch :
            /\ commitments = Batch(b).commitments
            /\ funding = Batch(b).funding

-----------------------------------------------------------------------------
(* Properties of the amount parsers (specification SpecAmounts) *)

\* the function fn has been called and has returned
Called(fn) == "fn" \in DOMAIN called /\ called.fn = fn

\* one of the three amount parsers has been called and has returned
AmountParsed ==
    \/ Called("app.parse_funding_amount")
    \/ Called("secure_app.parse_funding_amount")
    \/ Called("funding-tracker.parse_funding_amount")

\* the first number written in the text (thousands separators aside)
FirstNumber(text) == number_search(without_commas(text))

\* two exact floats are the same number
SameNumber(a, b) == a.n * b.d = b.n * a.d

\* C14. For every string the amount parser returns a number >= 0 and does not
\* raise: 0.0 for the empty string, 0.0 for a text without digits, and for a
\* text with several numbers a value derived from the first number only.
\* This holds for each amount parser of the repository.
C14_AmountParserTotal ==
    AmountParsed =>
        LET text == called.args.amount_str
            first == FirstNumber(text)
        IN  /\ outcome.t = "float"
            /\ outcome.n >= 0 /\ outcome.d > 0
            /\ ~first.found => outcome.n = 0
            /\ first.found =>
                   \/ SameNumber(outcome, first.value)
                   \/ SameNumber(outcome, times_1000(first.value))
                   \/ SameNumber(outcome, over_1000(first.value))

\* the letters that follow the first number, after a space or none, in lower
\* case: the unit of the amount
UnitOf(text) ==
    LET t == without_commas(text)
        first == number_search(t)
        rest == SubSeq(t, first.to + 1, Len(t))
        word == IF rest # <<>> /\ rest[1] = 32 THEN Tail(rest) ELSE rest
        IsLetter(c) == c \in (65..90) \cup (97..122)
        n == IF \E i \in 1..Len(word) : ~IsLetter(word[i])
             THEN (CHOOSE i \in 1..Len(word) :
                       ~IsLetter(word[i]) /\ \A j \in 1..(i - 1) : IsLetter(word[j])) - 1
             ELSE Len(word)
    IN  lower(SubSeq(word, 1, n))

\* C15. The amount parser scales the first number by 1000 when the unit is B
\* or billion, by 1 when it is M or million, by 0.001 when it is K or
\* thousand and by 1 without a unit; the scale depends on the unit only, not
\* on other letters of the text.  Stated for the texts that hold one number.
C15_ScaleByUnitOnly ==
    (/\ AmountParsed
     /\ FirstNumber(called.args.amount_str).found
     /\ LET t == without_commas(called.args.amount_str)
        IN  \A i \in (number_search(t).to + 1)..Len(t) : ~IsDigit(t[i])) =>
        LET text == called.args.amount_str
            first == FirstNumber(text).value
            unit == UnitOf(text)
            scaled == IF unit \in {lower(<<LetterB>>), Billion} THEN times_1000(first)
                      ELSE IF unit \in {lower(<<LetterM>>), Million} THEN first
                      ELSE IF unit \in {lower(<<LetterK>>), Thousand} THEN over_1000(first)
                      ELSE first
        IN  outcome.t = "float" /\ SameNumber(outcome, scaled)


-----------------------------------------------------------------------------
(* Properties of the funding tracker, under SpecTracker *)

\* the raw records of the batch whose announcement_date parses as a date
Dated(batch) ==
    {i \in 1..Len(batch) : "announcement_date" \in DOMAIN batch[i]
                           /\ strptime_str(batch[i].announcement_date.s).ok}

\* C13: a raw record whose announcement_date is absent or does not parse
\* produces no entity and is counted as dropped: over a batch, the events
\* emitted all carry a valid date and there is one per dated raw record, the
\* other records being the dropped ones.
C13_UndatedRecordIsDropped ==
    Called("track_crunchbase_carbon") =>
        /\ \A i \in 1..Len(outcome) : strptime_str(outcome[i].announcement_date.s).ok
        /\ Len(outcome) = Cardinality(Dated(called.args.mock_events))

InUnit(score) == score >= 0 /\ score <= 100

ScoresInUnit(event) ==
    /\ InUnit(event.dovu_relevance)
    /\ InUnit(event.competitive_threat)
    /\ InUnit(event.partnership_opportunity)

\* C17: for every raw funding record, the dovu_relevance, the
\* competitive_threat and the partnership_opportunity of its FundingEvent lie
\* in [0, 1].
C17_FundingScoresInUnit ==
    /\ Called("process_funding_event") => ScoresInUnit(outcome)
    /\ Called("track_crunchbase_carbon") =>
           \A i \in 1..Len(outcome) : ScoresInUnit(outcome[i])

\* C17's case: a record whose keywords sum to more than 1.0 in two scores (1.2
\* and 1.3), the second multiplied for an amount over $50M
C17_Witness ==
    /\ Called("process_funding_event")
    /\ called.args.raw_data.description.s = TokenizedCredits
    /\ called.args.raw_data.sector.s = CarbonManagement
    /\ "amount" \in DOMAIN called.args.raw_data
    /\ RatioGt(tracker_parse_funding_amount(called.args.raw_data.amount.s), 50)
    /\ outcome.dovu_relevance = 100
    /\ outcome.competitive_threat = 100


-----------------------------------------------------------------------------
(* Properties of the relevance scorers, under SpecRelevance *)

\* C16: for every text (and, for the scraper's scorer, every commitment type
\* and target year) the relevance_score given to a commitment lies in
\* [0.4, 0.95].
C16_RelevanceScoreInRange ==
    (Called("create_real_data.calculate_dovu_relevance") \/ Called("calculate_relevance_score"))
        => (outcome >= 40 /\ outcome <= 95)


-----------------------------------------------------------------------------
(* Properties of the summary, under SpecStats *)

\* a summary has been produced, for /api/stats or for the page
Summarised ==
    pc = "done" /\ req.endpoint \in {"stats", "dashboard"} /\ resp.status = 200

\* the record is dated more than 180 days before the day of the request
Old(rec) == strptime(rec).ok /\ strptime(rec).ord < req.now.ord - OpenMaxDays

\* the records a summary is computed over: those of the last 180 days in the
\* open app, the loaded list in the secure app
InScope(rec) ==
    IF req.app = "app" THEN strptime(rec).ok /\ ~Old(rec) ELSE TRUE

\* how many in-scope records of the list have the score over 0.6
HighInScope(list, key) ==
    Cardinality({i \in 1..Len(list) : InScope(list[i]) /\ Over(list[i], key)})

\* C18: in the summary, high_value_commitments is the number of in-scope
\* commitments whose relevance_score is strictly greater than 0.6, and
\* competitive_threats and partnership_opportunities are the numbers of in-scope
\* funding events with competitive_threat > 0.6 and partnership_opportunity > 0.6.
C18_HighCountsAreStrictlyOver ==
    Summarised =>
        /\ resp.summary.high_value_commitments = HighInScope(commitments, "relevance_score")
        /\ resp.summary.competitive_threats = HighInScope(funding, "competitive_threat")
        /\ resp.summary.partnership_opportunities
               = HighInScope(funding, "partnership_opportunity")

\* C18's case: a summary over a commitment scored 0.85 and one scored exactly
\* 0.6, and over a funding event whose threat is exactly 0.6 and whose
\* partnership score is over it; one commitment is counted
C18_Witness ==
    /\ Summarised
    /\ \E i \in 1..Len(commitments) :
          InScope(commitments[i]) /\ commitments[i].relevance_score = Num(85)
    /\ \E i \in 1..Len(commitments) :
          InScope(commitments[i]) /\ commitments[i].relevance_score = Num(HighScore)
    /\ \E i \in 1..Len(funding) :
          /\ InScope(funding[i])
          /\ Get(funding[i], "competitive_threat", None) = Num(HighScore)
          /\ Over(funding[i], "partnership_opportunity")
    /\ resp.summary.high_value_commitments = 1
    /\ resp.summary.partnership_opportunities >= 1

\* the records of the list that are not older than 180 days
NotOld(list) == SelectSeq(list, LAMBDA rec : ~Old(rec))

\* how many records of the list have the score over 0.6
HighOf(list, key) == Cardinality({i \in 1..Len(list) : Over(list[i], key)})

\* C19: in every app the summary keeps to the 6 months: a record dated more
\* than 180 days before today adds to none of total_commitments,
\* total_funding_events, high_value_commitments, competitive_threats,
\* partnership_opportunities and total_funding_value.
C19_SummaryWithin180Days ==
    Summarised =>
        /\ resp.summary.total_commitments = Len(NotOld(commitments))
        /\ resp.summary.total_funding_events = Len(NotOld(funding))
        /\ resp.summary.high_value_commitments = HighOf(NotOld(commitments), "relevance_score")
        /\ resp.summary.competitive_threats = HighOf(NotOld(funding), "competitive_threat")
        /\ resp.summary.partnership_opportunities
               = HighOf(NotOld(funding), "partnership_opportunity")
        /\ resp.summary.total_funding_value
               = format_funding_value(IF req.app = "app"
                                      THEN app_total_funding_value(NotOld(funding))
                                      ELSE secure_total_funding_value(NotOld(funding)))


-----------------------------------------------------------------------------
(* Filtering again, under Spec *)

\* C20: applying the commitments filter (or the funding filter) with the same
\* parameters and the same now to the collection it returned yields the same
\* returned collection again.
C20_FilterIdempotent ==
    (Filtering /\ resp.status = 200) =>
        /\ Answer(resp.items, req.args).status = 200
        /\ Answer(resp.items, req.args).items = resp.items

\* C20's case: a request with a threshold, answered with some records of the
\* snapshot and without others
C20_Witness ==
    /\ Filtering
    /\ resp.status = 200
    /\ req.args.min_relevance.k = "num"
    /\ Len(resp.items) >= 1
    /\ Len(resp.items) < Len(Source)


-----------------------------------------------------------------------------
(* Order and determinism of the filters, under Spec *)

\* sub is list with some elements left out, the others in their order
RECURSIVE IsSubsequence(_, _)
IsSubsequence(sub, list) ==
    IF sub = <<>> THEN TRUE
    ELSE IF list = <<>> THEN FALSE
    ELSE IF Head(sub) = Head(list) THEN IsSubsequence(Tail(sub), Tail(list))
    ELSE IsSubsequence(sub, Tail(list))

-----------------------------------------------------------------------------
(* Authentication of the secure app, under SpecSecure *)

\* a request to one of the three guarded endpoints of the secure app is answered
Guarded ==
    /\ pc = "done"
    /\ req.app = "secure"
    /\ req.endpoint \in {"commitments", "funding", "alerts"}

\* C22: in the secure app the commitments, funding and alerts operations return
\* entity data only when a key is configured and the request's X-API-Key equals
\* it; without a configured key every request is answered 503, with a missing
\* or different key 401, both before any validation or loading: the answer is
\* the bare error whatever the query string and the data, and no alert is
\* derived.
C22_KeyBeforeAnything ==
    Guarded =>
        /\ expected_key = <<>> => (resp = Error(503) /\ alerts = <<>>)
        /\ (expected_key # <<>> /\ req.api_key # expected_key)
               => (resp = Error(401) /\ alerts = <<>>)
        /\ (resp.status = 200 \/ resp.items # <<>> \/ alerts # <<>>)
               => (expected_key # <<>> /\ req.api_key = expected_key)

\* C22's case: a request with a wrong key and a query string that does not
\* validate is answered 401, not 400, over files that hold data
C22_Witness ==
    /\ Guarded
    /\ expected_key = ApiKey
    /\ req.api_key = WrongKey
    /\ req.args.min_relevance = BadArg
    /\ commitments # <<>>
    /\ resp = Error(401)


-----------------------------------------------------------------------------
(* Records without a usable date, under SpecDerive *)

\* the scores of the snapshot are numbers where the record has them, and every
\* commitment has its relevance_score
ScoresRegular ==
    /\ \A i \in 1..Len(commitments) :
          "relevance_score" \in DOMAIN commitments[i]
              /\ IsNumber(commitments[i].relevance_score)
    /\ \A i \in 1..Len(funding) :
          \A key \in {"competitive_threat", "partnership_opportunity"} :
              key \in DOMAIN funding[i] => IsNumber(funding[i][key])

\* the snapshot holds a record whose announcement_date is missing or does not parse
SomeUndated ==
    \/ \E i \in 1..Len(commitments) : ~strptime(commitments[i]).ok
    \/ \E i \in 1..Len(funding) : ~strptime(funding[i]).ok

\* an alerts or stats request has passed the key test, if there is one
Derived ==
    /\ pc = "done"
    /\ req.endpoint \in {"alerts", "stats"}
    /\ Admitted

\* C23: alert derivation and summarization succeed on every snapshot, also on
\* one with a record whose announcement_date is missing or does not parse:
\* the record gives no commitment alert, is not counted as recent, and the
\* alerts and counts of the other records are returned.
C23_UndatedRecordIsNotFatal ==
    (Derived /\ ScoresRegular) =>
        /\ resp.status = 200
        /\ req.endpoint = "alerts" =>
               \A i \in 1..Len(alerts) :
                   alerts[i].type = "commitment" => DayOf(alerts[i]).ok
        /\ req.endpoint = "stats" =>
               resp.summary.recent_commitments
                   = Cardinality({i \in 1..Len(commitments) :
                                     DateGe(commitments[i], req.now.ord - AlertDays)})


-----------------------------------------------------------------------------
(* Properties of the stored batches (specification SpecStore) *)

\* every file of the directory is in the directory after the step, with the
\* content it had
FilesKept(dir, after) ==
    \A f \in DOMAIN dir : f \in DOMAIN after /\ after[f] = dir[f]

\* C24. Each batch is stored as a new snapshot: no cycle of the collection
\* loop changes the content an earlier cycle stored, two cycles on the same
\* calendar day included.
C24_EarlierBatchesKept ==
    [][/\ FilesKept(disk.commitments, disk'.commitments)
       /\ FilesKept(disk.funding, disk'.funding)]_vars


-----------------------------------------------------------------------------
(* The stage of a funding event (specification SpecTracker) *)

\* the stage by the amount when the funding type does not tell: an amount
\* that is missing or does not parse counts as 0
StageByAmount(amount) ==
    LET amount_value == tracker_parse_funding_amount(amount) IN
    IF ~Truthy(amount_value) \/ RatioLt(amount_value, 5) THEN Seed
    ELSE IF RatioLt(amount_value, 25) THEN Growth
    ELSE Mature

\* the funding type is none of those that tell the stage
ByAmount(funding_type) ==
    /\ lower(funding_type) \notin
          { <<115, 101, 101, 100>>, <<112, 114, 101, 45, 115, 101, 101, 100>>,      \* 'seed', 'pre-seed'
            <<115, 101, 114, 105, 101, 115, 32, 97>>, <<115, 101, 114, 105, 101, 115, 32, 98>>,
            <<115, 101, 114, 105, 101, 115, 32, 99>>, <<115, 101, 114, 105, 101, 115, 32, 100>>,
            <<115, 101, 114, 105, 101, 115, 32, 101>> }                              \* 'series a' .. 'series e'
    /\ ~Contains(lower(funding_type), <<97, 99, 113, 117, 105, 115, 105, 116, 105, 111, 110>>)

\* C25. determine_stage answers by the funding type where it is a seed,
\* series or acquisition type; otherwise seed for a parsed amount below 5,
\* growth from 5 to below 25 and mature from 25, a missing or unparseable
\* amount parsing to 0 and so giving seed.
C25_StageByTypeThenAmount ==
    Called("process_funding_event") =>
        LET raw_data == called.args.raw_data IN
        /\ lower(GetStr(raw_data, "funding_type")) = <<115, 101, 114, 105, 101, 115, 32, 97>>
               => outcome.stage = Str(Growth)
        /\ ByAmount(GetStr(raw_data, "funding_type"))
               => outcome.stage = Str(StageByAmount(GetStr(raw_data, "amount")))


-----------------------------------------------------------------------------
(* The competitive threat of a funding event (specification SpecTracker) *)

\* the description holds both words, in any case
HoldsBoth(description, one, other) ==
    Contains(lower(description), one) /\ Contains(lower(description), other)

\* 0.6 for 'carbon credit' with 'platform' plus 0.7 for 'tokenization' with
\* 'carbon', in hundredths
ThreatBase(description) ==
    (IF HoldsBoth(description, <<99, 97, 114, 98, 111, 110, 32, 99, 114, 101, 100, 105, 116>>,
                  <<112, 108, 97, 116, 102, 111, 114, 109>>) THEN 60 ELSE 0)
  + (IF HoldsBoth(description, <<116, 111, 107, 101, 110, 105, 122, 97, 116, 105, 111, 110>>,
                  <<99, 97, 114, 98, 111, 110>>) THEN 70 ELSE 0)

\* the amount of the raw record as the tracker parses it, 0 where it gives None
ParsedAmount(raw_data) ==
    LET v == tracker_parse_funding_amount(IF "amount" \in DOMAIN raw_data
                                          THEN raw_data.amount.s ELSE <<48>>)
    IN  IF v.t = "float" THEN v ELSE Ratio(0, 1)

\* 1.5 over 50, 1.2 over 20 up to 50, else 1, in hundredths
ThreatFactor(v) ==
    IF v.n > 50 * v.d THEN 150 ELSE IF v.n > 20 * v.d THEN 120 ELSE 100

\* min(1, base * m) in hundredths
ThreatOf(raw_data) ==
    LET product == (ThreatBase(GetStr(raw_data, "description"))
                        * ThreatFactor(ParsedAmount(raw_data))) \div 100
    IN  IF product > 100 THEN 100 ELSE product

\* the raw records of the same description with an amount that is not smaller
LargerRaw(raw_data) ==
    { r \in RawRecords :
        /\ GetStr(r, "description") = GetStr(raw_data, "description")
        /\ ParsedAmount(r).n * ParsedAmount(raw_data).d
               >= ParsedAmount(raw_data).n * ParsedAmount(r).d }

\* C26. The competitive threat of a raw record is min(1, base * m): base 0.6
\* for 'carbon credit' with 'platform' plus 0.7 for 'tokenization' with
\* 'carbon', m 1.5 for a parsed amount over 50, 1.2 over 20 up to 50, else 1.
\* So the score is 0 for every amount when neither pair matches, and a larger
\* amount never gives a smaller score.
C26_ThreatIsBaseTimesFactor ==
    Called("process_funding_event") =>
        LET raw_data == called.args.raw_data IN
        /\ outcome.competitive_threat = ThreatOf(raw_data)
        /\ ThreatBase(GetStr(raw_data, "description")) = 0 => outcome.competitive_threat = 0
        /\ \A r \in LargerRaw(raw_data) :
               calculate_competitive_threat(r) >= outcome.competitive_threat

\* C26's case: 'Carbon credit platform' with '$50M', the largest amount of the
\* factor 1.2, scored 0.72
C26_Witness ==
    /\ Called("process_funding_event")
    /\ ThreatBase(GetStr(called.args.raw_data, "description")) = 60
    /\ "amount" \in DOMAIN called.args.raw_data
    /\ called.args.raw_data.amount.s = <<36, 53, 48, 77>>
    /\ outcome.competitive_threat = 72


-----------------------------------------------------------------------------
(* The snapshot under the queries (specification SpecQueries) *)

\* C27. No filter, alert or summary operation modifies the loaded snapshot or
\* a record in it: every step of every sequence of queries leaves both
\* collections as they were.
C27_QueriesKeepSnapshot ==
    [][commitments' = commitments /\ funding' = funding]_vars

\* C27's case: a filter of the open app has answered with no record of a
\* snapshot that holds one, and the snapshot still holds it
C27_Witness ==
    /\ Filtering
    /\ req.app = "app"
    /\ req.endpoint = "commitments"
    /\ resp.status = 200
    /\ resp.items = <<>>
    /\ Len(commitments) = 1


-----------------------------------------------------------------------------
(* The order of alerts of one date (specification SpecOrder) *)

\* commitment alerts come first, partnership alerts last
Rank(type) == IF type = "commitment" THEN 1 ELSE IF type = "threat" THEN 2 ELSE 3

\* the titles of a list of alerts or records, in its order
Titles(list) == [i \in 1..Len(list) |-> IF "title" \in DOMAIN list[i]
                                         THEN list[i].title ELSE list[i].company]

\* the alerts of one type and date, in the order of the output
Group(type, date) == SelectSeq(alerts, LAMBDA a : a.type = type /\ a.date = date)

\* the records of the snapshot that give the alerts of one type and date, in
\* the order of the snapshot
Origin(type, date) ==
    IF type = "commitment"
    THEN SelectSeq(commitments,
                   LAMBDA c : Qualifies(c, req.now) /\ c.announcement_date = date)
    ELSE SelectSeq(funding,
                   LAMBDA f : /\ Over(f, IF type = "threat" THEN "competitive_threat"
                                         ELSE "partnership_opportunity")
                              /\ Get(f, "announcement_date", Str(<<>>)) = date)

\* C28. Among the alerts of one date the output has the commitment alerts,
\* then the threat alerts, then the partnership alerts, each group in the
\* order of its records in the snapshot; the cut at 20 takes the alerts from
\* the end, so of one date it drops partnership alerts before threat alerts
\* before commitment alerts.
C28_SameDateByTypeThenSource ==
    (Alerting /\ resp.status = 200) =>
        /\ \A i \in 1..Len(alerts) : \A j \in (i + 1)..Len(alerts) :
               alerts[i].date = alerts[j].date =>
                   Rank(alerts[i].type) <= Rank(alerts[j].type)
        /\ \A k \in 1..Len(alerts) :
               \A type \in {"commitment", "threat", "partnership"} :
                   Titles(Group(type, alerts[k].date)) = Titles(Origin(type, alerts[k].date))
        /\ resp.items = SubSeq(alerts, 1, Len(resp.items))
        /\ \A i \in 1..Len(resp.items) : \A j \in (Len(resp.items) + 1)..Len(alerts) :
               alerts[i].date = alerts[j].date =>
                   Rank(alerts[i].type) <= Rank(alerts[j].type)

\* C28's case: two commitments and two funding events of today, the second of
\* each named before the first in the alphabet, give six alerts of one date
C28_Witness ==
    /\ Alerting /\ resp.status = 200
    /\ Len(alerts) = 6
    /\ \A i \in 1..Len(alerts) : alerts[i].date = Str(Today)
    /\ Titles(alerts) = <<Str(<<66>>), Str(<<65>>), Str(<<72>>), Str(<<71>>), Str(<<72>>), Str(<<71>>)>>

\* C28's case of the cut: a partnership alert is dropped while threat alerts of
\* its date are returned
C28_WitnessCut ==
    /\ Alerting /\ resp.status = 200
    /\ Len(alerts) > Len(resp.items)
    /\ alerts[Len(alerts)].type = "partnership"
    /\ \E i \in 1..Len(resp.items) :
          resp.items[i].type = "threat" /\ resp.items[i].date = alerts[Len(alerts)].date


-----------------------------------------------------------------------------
(* The summary beside the filters (specification SpecStats) *)

\* C29. In the open app, on the same snapshot at the same instant, the
\* commitments the summary counts as total_commitments are those the
\* commitments filter returns with default parameters, and likewise for the
\* funding events; a record dated exactly 180 days before today is treated
\* alike by both at every time of day.
C29_SummaryCountsWhatFiltersReturn ==
    (Summarised /\ req.app = "app") =>
        LET listed == app_commitments_response(commitments, NoArgs, req.now)
            events == app_funding_response(funding, NoArgs, req.now)
        IN  /\ listed.status = 200 =>
                   resp.summary.total_commitments = Len(listed.items)
            /\ events.status = 200 =>
                   resp.summary.total_funding_events = Len(events.items)


-----------------------------------------------------------------------------
(* Query strings the open app cannot parse (specification Spec) *)

\* C30. In the open app, when a numeric parameter of a commitments or funding
\* request does not parse, every filter parameter of the request reverts to
\* its default (thresholds 0, days_back 180, no type or sector), those given
\* with valid values too, and the response is that of a request with no
\* parameters.
C30_UnparsedNumberRevertsAll ==
    (Filtering /\ req.app = "app" /\ ~AllParse) =>
        /\ resp = Answer(Source, NoArgs)
        /\ resp.status = 200 => resp.filters = Params(0, 180, <<>>, <<>>, 0, 0)

\* C30's case: type=net-zero and min_relevance=0.6 with days that do not
\* parse, answered with a commitment of another type
C30_Witness ==
    /\ Filtering /\ req.app = "app" /\ req.endpoint = "commitments"
    /\ req.args.type = Text(NetZero)
    /\ req.args.min_relevance = NumArg(60)
    /\ req.args.days = BadArg
    /\ resp.status = 200
    /\ \E i \in 1..Len(resp.items) : resp.items[i].commitment_type # Str(NetZero)

====
